---- MODULE Spec2Model ----
(***************************************************************************)
(* The classic 9x9 Sudoku engine of sudoku_machine: ElementSet, the        *)
(* index-addressable ArrayPriorityQueue, ClassicGrid and ClassicPuzzle     *)
(* (fill_from_rng, visit_solutions_recursive / _iterative, is_well_posed,  *)
(* minimize_from_rng).                                                     *)
(***************************************************************************)
EXTENDS Integers, Sequences, FiniteSets, TLC

(***************************************************************************)
(* Program constants                                                       *)
(***************************************************************************)
\* src/puzzles/classic.rs:15  const BOARD_SIZE: usize = 9 * 9
BOARD_SIZE == 81
\* src/puzzles/classic.rs:17  const GROUP_SIZE: usize = 9 + 8 + 4
GROUP_SIZE == 21
\* side of the board: rows, columns, boxes and digits (grids/classic.rs:4)
SIDE == 9
\* side of a box (classic.rs:70)
BOX_SIDE == 3
\* CellValue = Option<u8>: None is written 0 (From<[[u8; 9]; 9]> maps 0 to None)
None == 0

(***************************************************************************)
(* Bounds of the model                                                     *)
(***************************************************************************)
\* largest max_count handed to the bounded find/count operations
MaxBound == 3
\* number of wrong-clue variants tried on each start grid
MaxWrong == 2
\* number of random streams (seeds) explored by fill_from_rng
NumSeeds == 6
\* fill_from_rng: the choices for the last MaxFree cells are arbitrary, the
\* earlier ones are drawn from the stream of the seed
MaxFree == 28
\* number of shuffle orders explored by minimize_from_rng
NumShuffles == 2

\* The element of a one-element set. Val({e(x) : x \in {a}}) is e(a) with a
\* computed once, before e: the statement "let x = a; e".
Val(S) == CHOOSE r \in S : TRUE

\* the elements of a sequence
SeqSet(sq) == {sq[i] : i \in 1..Len(sq)}

Idx == 0..(SIDE - 1)
Digits == 1..SIDE
Cells == 0..(BOARD_SIZE - 1)

(***************************************************************************)
(* ElementSet (utility/element_set.rs, utility/bitset.rs)                  *)
(* A set of digits; compared by cardinality only, smaller set = greater.   *)
(***************************************************************************)
CLASSIC == 1..9

es_len(s) == Cardinality(s)

\* Ord::cmp: other.len().cmp(self.len())
es_cmp(a, b) ==
    IF es_len(b) > es_len(a) THEN "Greater"
    ELSE IF es_len(b) < es_len(a) THEN "Less"
    ELSE "Equal"

es_gt(a, b) == es_cmp(a, b) = "Greater"
es_ge(a, b) == es_cmp(a, b) # "Less"
\* PartialEq::eq
es_eq(a, b) == es_len(a) = es_len(b)

\* ascending iteration of a set of digits (BitSet16Iter walks bit 0 upwards):
\* the i-th item is the element with i - 1 smaller elements
es_iter(s) ==
    [i \in 1..Cardinality(s) |-> CHOOSE x \in s : Cardinality({y \in s : y < x}) = i - 1]

(***************************************************************************)
(* ArrayPriorityQueue<ElementSet, 81> (utility/priority_queue.rs)          *)
(* heap: sequence of keys, heap slot i of the code is heap[i + 1]          *)
(* map : sequence of Option<(heap slot, priority)>, key k is map[k + 1]    *)
(***************************************************************************)
NoEntry == [some |-> FALSE, slot |-> 0, prio |-> {}]
Entry(i, p) == [some |-> TRUE, slot |-> i, prio |-> p]

pq_new == [heap |-> <<>>, map |-> <<>>]

\* while self.map.len() < required_len { self.map.push(None) }
init_map_none(q, required_len) ==
    IF Len(q.map) < required_len
    THEN [q EXCEPT !.map = @ \o [i \in 1..(required_len - Len(q.map)) |-> NoEntry]]
    ELSE q

get_parent_index(i) == (i - 1) \div 2
get_left_child_index(i) == 2 * i + 1
get_right_child_index(i) == 2 * i + 2

swap(q, heap_index_a, heap_index_b) ==
    LET map_index_a == q.heap[heap_index_a + 1]
        map_index_b == q.heap[heap_index_b + 1]
        priority_a == q.map[map_index_a + 1].prio
        priority_b == q.map[map_index_b + 1].prio
    IN [heap |-> [q.heap EXCEPT ![heap_index_a + 1] = map_index_b,
                                ![heap_index_b + 1] = map_index_a],
        map |-> [q.map EXCEPT ![map_index_a + 1] = Entry(heap_index_b, priority_a),
                              ![map_index_b + 1] = Entry(heap_index_a, priority_b)]]

\* Option<&P>: the map slot itself (some, prio)
get_priority_unsafe(q, key) == q.map[key + 1]

get_priority_heap_index_unsafe(q, heap_index) ==
    get_priority_unsafe(q, q.heap[heap_index + 1])

\* Option<&P> comparisons: None < Some(_), Some(a) vs Some(b) by ElementSet
opt_gt(a, b) ==
    IF a.some /\ b.some THEN es_gt(a.prio, b.prio) ELSE a.some /\ ~b.some
opt_ge(a, b) ==
    IF a.some /\ b.some THEN es_ge(a.prio, b.prio) ELSE a.some \/ ~b.some

RECURSIVE heapify_up_loop(_, _)
heapify_up_loop(q, current_heap_index) ==
    IF current_heap_index > 0
       /\ opt_gt(get_priority_heap_index_unsafe(q, current_heap_index),
                 get_priority_heap_index_unsafe(q, get_parent_index(current_heap_index)))
    THEN Val({heapify_up_loop(swapped, get_parent_index(current_heap_index)) :
                 swapped \in {swap(q, current_heap_index,
                                   get_parent_index(current_heap_index))}})
    ELSE q

\* heapify_up that stops after one swap
heapify_up_one_level(q, heap_index) ==
    IF heap_index > 0
       /\ opt_gt(get_priority_heap_index_unsafe(q, heap_index),
                 get_priority_heap_index_unsafe(q, get_parent_index(heap_index)))
    THEN swap(q, heap_index, get_parent_index(heap_index))
    ELSE q

heapify_up(q, heap_index) ==
    IF heap_index = 0 THEN q ELSE heapify_up_loop(q, heap_index)

\* the child heapify_down compares with: the right one if it is greater
largest_child(q, left, right) ==
    IF right < Len(q.heap)
       /\ opt_gt(get_priority_heap_index_unsafe(q, right),
                 get_priority_heap_index_unsafe(q, left))
    THEN right ELSE left

RECURSIVE heapify_down(_, _)
heapify_down(q, current_heap_index) ==
    IF get_left_child_index(current_heap_index) < Len(q.heap)
    THEN Val({IF opt_ge(get_priority_heap_index_unsafe(q, current_heap_index),
                        get_priority_heap_index_unsafe(q, largest_child_index))
              THEN q
              ELSE Val({heapify_down(swapped, largest_child_index) :
                           swapped \in {swap(q, current_heap_index, largest_child_index)}}) :
                 largest_child_index \in
                     {largest_child(q, get_left_child_index(current_heap_index),
                                    get_right_child_index(current_heap_index))}})
    ELSE q

\* insert_slot that leaves the entry as it was when the new priority compares
\* equal to the old one
insert_slot_keeps_equal(q, map_index, new_priority, slot) ==
    IF slot.some
    THEN Val({IF es_cmp(get_priority_heap_index_unsafe(q1, slot.slot).prio, slot.prio)
                     = "Greater"
              THEN heapify_up(q1, slot.slot)
              ELSE IF es_cmp(get_priority_heap_index_unsafe(q1, slot.slot).prio, slot.prio)
                         = "Less"
              THEN heapify_down(q1, slot.slot)
              ELSE q :
                 q1 \in {[q EXCEPT !.map[map_index + 1] = Entry(slot.slot, new_priority)]}})
    ELSE Val({heapify_up(q1, Len(q.heap)) :
                 q1 \in {[heap |-> Append(q.heap, map_index),
                          map |-> [q.map EXCEPT ![map_index + 1] =
                                      Entry(Len(q.heap), new_priority)]]}})

\* insert_unsafe on a map long enough; slot is the map entry of map_index
insert_slot(q, map_index, new_priority, slot) ==
    IF slot.some
    THEN Val({IF es_cmp(get_priority_heap_index_unsafe(q1, slot.slot).prio, slot.prio)
                     = "Greater"
              THEN heapify_up(q1, slot.slot)
              ELSE IF es_cmp(get_priority_heap_index_unsafe(q1, slot.slot).prio, slot.prio)
                         = "Less"
              THEN heapify_down(q1, slot.slot)
              ELSE q1 :
                 q1 \in {[q EXCEPT !.map[map_index + 1] = Entry(slot.slot, new_priority)]}})
    ELSE Val({heapify_up(q1, Len(q.heap)) :
                 q1 \in {[heap |-> Append(q.heap, map_index),
                          map |-> [q.map EXCEPT ![map_index + 1] =
                                      Entry(Len(q.heap), new_priority)]]}})

insert_unsafe(q0, map_index, new_priority) ==
    Val({insert_slot(q, map_index, new_priority, q.map[map_index + 1]) :
            q \in {IF map_index >= Len(q0.map) THEN init_map_none(q0, map_index + 1)
                   ELSE q0}})

\* pairs: a sequence of <<key, priority>>; inserts pairs[lo..hi] in order
\* (the range is split in halves to keep the evaluation depth logarithmic)
RECURSIVE fill_range(_, _, _, _)
fill_range(q, pairs, lo, hi) ==
    IF lo > hi THEN q
    ELSE IF lo = hi THEN insert_unsafe(q, pairs[lo][1], pairs[lo][2])
    ELSE Val({fill_range(half, pairs, (lo + hi) \div 2 + 1, hi) :
                 half \in {fill_range(q, pairs, lo, (lo + hi) \div 2)}})

fill_from_iter_unsafe(q, pairs) == fill_range(q, pairs, 1, Len(pairs))

from_iter_unsafe(pairs) == fill_from_iter_unsafe(init_map_none(pq_new, BOARD_SIZE), pairs)

pq_is_empty(q) == Len(q.heap) = 0
pq_len(q) == Len(q.heap)

\* pop: [some, key, prio, q]
\* pop after the swap of the root with the last slot: the last slot is removed,
\* its map entry taken, the new root sifted down
pop_last(q1, index) ==
    [some |-> TRUE, key |-> index, prio |-> q1.map[index + 1].prio,
     q |-> Val({IF Len(q2.heap) > 0 THEN heapify_down(q2, 0) ELSE q2 :
                   q2 \in {[heap |-> SubSeq(q1.heap, 1, Len(q1.heap) - 1),
                            map |-> [q1.map EXCEPT ![index + 1] = NoEntry]]}})]

pq_pop(q) ==
    IF Len(q.heap) = 0 THEN [some |-> FALSE, key |-> 0, prio |-> {}, q |-> q]
    ELSE Val({pop_last(q1, q1.heap[Len(q1.heap)]) :
                 q1 \in {IF Len(q.heap) - 1 > 0 THEN swap(q, 0, Len(q.heap) - 1) ELSE q}})

(***************************************************************************)
(* ClassicGrid (grids/classic.rs): grid[row][col], 0 for an empty cell     *)
(***************************************************************************)
grid_default == [r \in Idx |-> [c \in Idx |-> None]]

get_by_row_col(grid, row, col) == grid[row][col]
grid_set(grid, row, col, val) == [grid EXCEPT ![row][col] = val]

\* the values of a row, a column, a box, in iteration order
iter_row(grid, row) == [i \in 1..SIDE |-> grid[row][i - 1]]
iter_col(grid, col) == [i \in 1..SIDE |-> grid[i - 1][col]]
iter_box(grid, box_index) ==
    [i \in 1..SIDE |-> grid[(box_index \div 3) * 3 + ((i - 1) \div 3)]
                           [(box_index % 3) * 3 + ((i - 1) % 3)]]
iter_all(grid) == [i \in 1..BOARD_SIZE |-> grid[(i - 1) \div SIDE][(i - 1) % SIDE]]

(***************************************************************************)
(* ClassicPuzzle (puzzles/classic.rs)                                      *)
(***************************************************************************)
get_cell_index(row, col) == row * 9 + col
get_row_col(cell_index) == <<cell_index \div 9, cell_index % 9>>
get_box_index(row, col) == (row \div BOX_SIDE) * BOX_SIDE + (col \div BOX_SIDE)
\* CellCoords = <<row, col, box>>
get_cell_coords(cell_index) ==
    <<cell_index \div 9, cell_index % 9,
      get_box_index(cell_index \div 9, cell_index % 9)>>

puzzle_new ==
    [grid |-> grid_default,
     row_sets |-> [i \in Idx |-> CLASSIC],
     col_sets |-> [i \in Idx |-> CLASSIC],
     box_sets |-> [i \in Idx |-> CLASSIC],
     empty_cell_queue |-> from_iter_unsafe([i \in 1..BOARD_SIZE |-> <<i - 1, CLASSIC>>])]

puzzle_set(p, coords, val) ==
    [p EXCEPT !.row_sets[coords[1]] = @ \ {val},
              !.col_sets[coords[2]] = @ \ {val},
              !.box_sets[coords[3]] = @ \ {val},
              !.grid = grid_set(p.grid, coords[1], coords[2], val)]

\* puzzle_delete without the box set update
puzzle_delete_forgets_box(p, coords) ==
    LET value == get_by_row_col(p.grid, coords[1], coords[2])
    IN IF value # None
       THEN [p EXCEPT !.row_sets[coords[1]] = @ \cup {value},
                      !.col_sets[coords[2]] = @ \cup {value},
                      !.grid = grid_set(p.grid, coords[1], coords[2], None)]
       ELSE p

puzzle_delete(p, coords) ==
    LET value == get_by_row_col(p.grid, coords[1], coords[2])
    IN IF value # None
       THEN [p EXCEPT !.row_sets[coords[1]] = @ \cup {value},
                      !.col_sets[coords[2]] = @ \cup {value},
                      !.box_sets[coords[3]] = @ \cup {value},
                      !.grid = grid_set(p.grid, coords[1], coords[2], None)]
       ELSE p

get_element_set(p, coords) ==
    (p.row_sets[coords[1]] \cap p.col_sets[coords[2]]) \cap p.box_sets[coords[3]]

\* get_all_filled_cell_pairs without the pairs of the first row
get_all_filled_cell_pairs_skips_row(p) ==
    LET all == iter_all(p.grid)
        tagged == [i \in 1..BOARD_SIZE |-> <<i - 1, all[i]>>]
    IN SelectSeq(tagged, LAMBDA pair : pair[2] # None /\ pair[1] >= SIDE)

get_all_filled_cell_pairs(p) ==
    LET all == iter_all(p.grid)
        tagged == [i \in 1..BOARD_SIZE |-> <<i - 1, all[i]>>]
    IN SelectSeq(tagged, LAMBDA pair : pair[2] # None)

\* collect_empty_neighbors_for without the cells of the box
collect_empty_neighbors_for_no_box(p, coords) ==
    LET cell_row == coords[1]
        cell_col == coords[2]
        in_row == SelectSeq([i \in 1..9 |-> <<cell_row, i - 1>>],
                            LAMBDA rc : get_by_row_col(p.grid, rc[1], rc[2]) = None)
        in_col == SelectSeq([i \in 1..9 |-> <<i - 1, cell_col>>],
                            LAMBDA rc : rc[1] # cell_row
                                        /\ get_by_row_col(p.grid, rc[1], rc[2]) = None)
    IN Val({[i \in 1..Len(all) |-> get_cell_index(all[i][1], all[i][2])] :
               all \in {in_row \o in_col}})

collect_empty_neighbors_for(p, coords) ==
    LET cell_row == coords[1]
        cell_col == coords[2]
        cell_box == coords[3]
        tl_box_row == (cell_box \div 3) * 3
        tl_box_col == (cell_box % 3) * 3
        in_row == SelectSeq([i \in 1..9 |-> <<cell_row, i - 1>>],
                            LAMBDA rc : get_by_row_col(p.grid, rc[1], rc[2]) = None)
        in_col == SelectSeq([i \in 1..9 |-> <<i - 1, cell_col>>],
                            LAMBDA rc : rc[1] # cell_row
                                        /\ get_by_row_col(p.grid, rc[1], rc[2]) = None)
        in_box == SelectSeq([i \in 1..9 |-> <<tl_box_row + ((i - 1) \div 3),
                                              tl_box_col + ((i - 1) % 3)>>],
                            LAMBDA rc : rc[1] # cell_row /\ rc[2] # cell_col
                                        /\ get_by_row_col(p.grid, rc[1], rc[2]) = None)
    IN Val({[i \in 1..Len(all) |-> get_cell_index(all[i][1], all[i][2])] :
               all \in {in_row \o in_col \o in_box}})

\* the scan of propagate_choice over the neighbours: [status, to_update]
\* status "dead" = return true, "panic" = unwrap of None, "ok" = scan finished
RECURSIVE propagate_scan(_, _, _, _, _, _)
propagate_scan(p, current_index, val, neighbors, i, to_update) ==
    IF i > Len(neighbors) THEN [status |-> "ok", to_update |-> to_update]
    ELSE LET ci == neighbors[i]
             old == get_priority_unsafe(p.empty_cell_queue, ci)
         IN IF ci = current_index
            THEN propagate_scan(p, current_index, val, neighbors, i + 1, to_update)
            ELSE IF ~old.some THEN [status |-> "panic", to_update |-> to_update]
            ELSE IF val \notin old.prio
            THEN propagate_scan(p, current_index, val, neighbors, i + 1, to_update)
            ELSE IF es_len(old.prio) = 1 THEN [status |-> "dead", to_update |-> to_update]
            ELSE propagate_scan(p, current_index, val, neighbors, i + 1,
                                Append(to_update, <<ci, old.prio>>))

\* propagate_apply that updates no neighbour
propagate_apply_nothing(q, val, to_update, i) == q

RECURSIVE propagate_apply(_, _, _, _)
propagate_apply(q, val, to_update, i) ==
    IF i > Len(to_update) THEN q
    ELSE Val({propagate_apply(inserted, val, to_update, i + 1) :
                 inserted \in {insert_unsafe(q, to_update[i][1], to_update[i][2] \ {val})}})

\* propagate_choice that applies the updates gathered before the dead end
propagate_choice_commits(p, coords, val, undo) ==
    Val({IF scan.status = "panic"
         THEN [dead_end |-> FALSE, panic |-> TRUE, puzzle |-> p, undo |-> undo]
         ELSE [dead_end |-> scan.status = "dead", panic |-> FALSE,
               puzzle |-> [p EXCEPT !.empty_cell_queue =
                               propagate_apply(p.empty_cell_queue, val, scan.to_update, 1)],
               undo |-> scan.to_update] :
            scan \in {Val({propagate_scan(p, get_cell_index(coords[1], coords[2]), val,
                                          neighbors, 1, <<>>) :
                              neighbors \in {collect_empty_neighbors_for(p, coords)}})}})

\* [dead_end, panic, puzzle, undo]
propagate_choice(p, coords, val, undo) ==
    Val({IF scan.status = "panic"
         THEN [dead_end |-> FALSE, panic |-> TRUE, puzzle |-> p, undo |-> undo]
         ELSE IF scan.status = "dead"
         THEN [dead_end |-> TRUE, panic |-> FALSE, puzzle |-> p, undo |-> undo]
         ELSE [dead_end |-> FALSE, panic |-> FALSE,
               puzzle |-> [p EXCEPT !.empty_cell_queue =
                               propagate_apply(p.empty_cell_queue, val, scan.to_update, 1)],
               undo |-> scan.to_update] :
            scan \in {Val({propagate_scan(p, get_cell_index(coords[1], coords[2]), val,
                                          neighbors, 1, <<>>) :
                              neighbors \in {collect_empty_neighbors_for(p, coords)}})}})

\* undo_replay that inserts nothing
undo_replay_nothing(q, undo, i) == q

\* replay of an undo list in reverse order
RECURSIVE undo_replay(_, _, _)
undo_replay(q, undo, i) ==
    IF i < 1 THEN q
    ELSE Val({undo_replay(inserted, undo, i - 1) :
                 inserted \in {insert_unsafe(q, undo[i][1], undo[i][2])}})

\* <<val, score>> pairs sorted by (score, val), the order sort_by gives: the
\* i-th value is the one with i - 1 pairs before it
sort_scored(s) ==
    [i \in 1..Cardinality(s) |->
        (CHOOSE x \in s :
            Cardinality({y \in s : y[2] < x[2] \/ (y[2] = x[2] /\ y[1] < x[1])}) = i - 1)[1]]

\* order_values_lcv that returns the candidates in the order of the set
order_values_lcv_unscored(p, coords, candidates) == es_iter(candidates)

order_values_lcv(p, coords, candidates) ==
    IF es_len(candidates) <= 2 THEN es_iter(candidates)
    ELSE LET current_index == get_cell_index(coords[1], coords[2])
             score(val, neigh_idx) == Cardinality({i \in 1..Len(neigh_idx) :
                              val \in get_priority_unsafe(p.empty_cell_queue, neigh_idx[i]).prio})
         IN Val({sort_scored({<<val, score(val, neigh_idx)>> : val \in candidates}) :
                    neigh_idx \in {SelectSeq(collect_empty_neighbors_for(p, coords),
                                       LAMBDA ci :
                                           ci # current_index
                                           /\ get_priority_unsafe(p.empty_cell_queue, ci).some)}})

\* From<ClassicGrid> for ClassicPuzzle
set_from_iter(vals) == CLASSIC \ {vals[i] : i \in 1..Len(vals)}

\* from_grid with an entry queued for every cell, filled or not
from_grid_queues_filled(grid) ==
    LET row_sets == [i \in Idx |-> set_from_iter(iter_row(grid, i))]
        col_sets == [i \in Idx |-> set_from_iter(iter_col(grid, i))]
        box_sets == [i \in Idx |-> set_from_iter(iter_box(grid, i))]
        pairs == [i \in 1..BOARD_SIZE |->
                    LET co == get_cell_coords(i - 1)
                    IN <<i - 1, (row_sets[co[1]] \cap col_sets[co[2]]) \cap box_sets[co[3]]>>]
    IN [grid |-> grid, row_sets |-> row_sets, col_sets |-> col_sets, box_sets |-> box_sets,
        empty_cell_queue |-> fill_from_iter_unsafe(init_map_none(pq_new, BOARD_SIZE), pairs)]

from_grid(grid) ==
    LET row_sets == [i \in Idx |-> set_from_iter(iter_row(grid, i))]
        col_sets == [i \in Idx |-> set_from_iter(iter_col(grid, i))]
        box_sets == [i \in Idx |-> set_from_iter(iter_box(grid, i))]
        empties == SelectSeq([i \in 1..BOARD_SIZE |-> i - 1], LAMBDA ci :
                       get_by_row_col(grid, get_cell_coords(ci)[1], get_cell_coords(ci)[2]) = None)
        pairs == [i \in 1..Len(empties) |->
                    LET co == get_cell_coords(empties[i])
                    IN <<empties[i], (row_sets[co[1]] \cap col_sets[co[2]]) \cap box_sets[co[3]]>>]
    IN [grid |-> grid, row_sets |-> row_sets, col_sets |-> col_sets, box_sets |-> box_sets,
        empty_cell_queue |-> fill_from_iter_unsafe(init_map_none(pq_new, BOARD_SIZE), pairs)]

(***************************************************************************)
(* The visitor closures of find_solutions / count_solutions and their      *)
(* bounded variants: sols and count are the closure's captured state.      *)
(* stopped and late record whether the closure has returned false and how  *)
(* often it was called after that.                                         *)
(***************************************************************************)
visitor_new(bounded, max_count) ==
    [bounded |-> bounded, max_count |-> max_count, count |-> 0, sols |-> <<>>,
     stopped |-> FALSE, late |-> 0]

\* visit with the bound compared by <= instead of <
visit_off_by_one(v, grid) ==
    LET keep == (~v.bounded) \/ (v.count + 1 <= v.max_count)
    IN [visitor |-> [v EXCEPT !.count = @ + 1,
                              !.sols = Append(@, grid),
                              !.late = IF v.stopped THEN @ + 1 ELSE @,
                              !.stopped = @ \/ ~keep],
        keep |-> keep]

\* [visitor, keep]: the closure body; keep is its return value
visit(v, grid) ==
    LET keep == (~v.bounded) \/ (v.count + 1 < v.max_count)
    IN [visitor |-> [v EXCEPT !.count = @ + 1,
                              !.sols = Append(@, grid),
                              !.late = IF v.stopped THEN @ + 1 ELSE @,
                              !.stopped = @ \/ ~keep],
        keep |-> keep]

(***************************************************************************)
(* visit_solutions_recursive: dfs as a machine over its call stack.        *)
(* A frame is one activation of dfs past its pop: the cell, the value      *)
(* order, the index of the value being tried, and the undo log.            *)
(* at: "dfs_call"   dfs is entered                                         *)
(*     "dfs_loop"   the top activation is at the head of its for loop      *)
(*     "dfs_return" a call of visit or dfs has returned ret to the top     *)
(*                  activation (to the caller of dfs if the stack is empty)*)
(* result of a step: [puzzle, stack, visitor, ret, at]                     *)
(***************************************************************************)
\* the top activation replaced by f (stack.last_mut())
ReplaceTop(stk, f) == [stk EXCEPT ![Len(stk)] = f]

DfsFrame(cell_index, ordered_vals) ==
    [cell_index |-> cell_index, ordered_vals |-> ordered_vals, i |-> 1, undo |-> <<>>]

\* a call of the visitor closure on the grid of p
dfs_visit(p, stk, r) ==
    [puzzle |-> p, stack |-> stk, visitor |-> r.visitor, ret |-> r.keep, at |-> "dfs_return"]

\* dfs_reinsert that gives the cell every digit as its priority
dfs_reinsert_all_digits(p, stk, v, ret) ==
    [puzzle |-> [p EXCEPT !.empty_cell_queue =
                    insert_unsafe(@, stk[Len(stk)].cell_index, CLASSIC)],
     stack |-> SubSeq(stk, 1, Len(stk) - 1), visitor |-> v, ret |-> ret,
     at |-> "dfs_return"]

\* the cell of the top activation goes back into the queue and dfs returns ret
dfs_reinsert(p, stk, v, ret) ==
    [puzzle |-> [p EXCEPT !.empty_cell_queue =
                    insert_unsafe(@, stk[Len(stk)].cell_index,
                                  get_element_set(p, get_cell_coords(stk[Len(stk)].cell_index)))],
     stack |-> SubSeq(stk, 1, Len(stk) - 1), visitor |-> v, ret |-> ret,
     at |-> "dfs_return"]

\* dfs past the emptiness test: pop, value order, undo log
dfs_popped(p, stk, v, popped) ==
    [puzzle |-> [p EXCEPT !.empty_cell_queue = popped.q],
     stack |-> Append(stk, DfsFrame(popped.key,
                   order_values_lcv([p EXCEPT !.empty_cell_queue = popped.q],
                                    get_cell_coords(popped.key), popped.prio))),
     visitor |-> v, ret |-> TRUE, at |-> "dfs_loop"]

\* entry of dfs
dfs_enter(p, stk, v) ==
    IF pq_is_empty(p.empty_cell_queue)
    THEN dfs_visit(p, stk, visit(v, p.grid))
    ELSE dfs_popped(p, stk, v, pq_pop(p.empty_cell_queue))

\* head of the for loop of the top activation: the next value is set and
\* propagated, up to the call of visit or dfs
dfs_iteration(p, stk, v) ==
    LET frame == stk[Len(stk)]
        cell_coords == get_cell_coords(frame.cell_index)
        num == frame.ordered_vals[frame.i]
        propagated(pr) ==
            IF pr.panic
            THEN [puzzle |-> pr.puzzle, stack |-> stk, visitor |-> v, ret |-> FALSE,
                  at |-> "panic"]
            ELSE IF pr.dead_end
            THEN [puzzle |-> puzzle_delete(pr.puzzle, cell_coords),
                  stack |-> ReplaceTop(stk, [frame EXCEPT !.i = @ + 1, !.undo = pr.undo]),
                  visitor |-> v, ret |-> TRUE, at |-> "dfs_loop"]
            ELSE IF pq_is_empty(pr.puzzle.empty_cell_queue)
            THEN dfs_visit(pr.puzzle, ReplaceTop(stk, [frame EXCEPT !.undo = pr.undo]),
                           visit(v, pr.puzzle.grid))
            ELSE [puzzle |-> pr.puzzle,
                  stack |-> ReplaceTop(stk, [frame EXCEPT !.undo = pr.undo]),
                  visitor |-> v, ret |-> TRUE, at |-> "dfs_call"]
    IN IF frame.i > Len(frame.ordered_vals)
       THEN dfs_reinsert(p, stk, v, TRUE)
       ELSE propagated(propagate_choice(puzzle_set(p, cell_coords, num), cell_coords, num,
                                        frame.undo))

\* after the undo replay and the delete: return false, or go on with the next value
dfs_resumed(restored, stk, v, keep_going) ==
    IF ~keep_going
    THEN dfs_reinsert(restored, stk, v, FALSE)
    ELSE [puzzle |-> restored,
          stack |-> ReplaceTop(stk, [stk[Len(stk)] EXCEPT !.i = @ + 1]),
          visitor |-> v, ret |-> TRUE, at |-> "dfs_loop"]

\* keep_going has come back into the top activation: undo replay, delete, then
\* return or next value
dfs_return(p, stk, v, keep_going) ==
    dfs_resumed(puzzle_delete([p EXCEPT !.empty_cell_queue =
                                  undo_replay(@, stk[Len(stk)].undo,
                                              Len(stk[Len(stk)].undo))],
                              get_cell_coords(stk[Len(stk)].cell_index)),
                stk, v, keep_going)

\* the closure of count_solutions_bounded_recursive(_, 1)
is_well_posed_visitor_one == visitor_new(TRUE, 1)

\* is_well_posed: the closure of count_solutions_bounded_recursive(self.clone(), 2)
is_well_posed_visitor == visitor_new(TRUE, 2)

\* is_well_posed that accepts any board with a solution
is_well_posed_result_nonzero(v) == v.count >= 1

\* is_well_posed: count == 1
is_well_posed_result(v) == v.count = 1

(***************************************************************************)
(* visit_solutions_iterative                                               *)
(***************************************************************************)
\* Frame whose cursor starts after the first candidate
Frame_skips_first(cell_index, order) ==
    [cell_index |-> cell_index, order |-> order, next_ix |-> 1, chosen |-> None,
     undo |-> <<>>]

Frame(cell_index, order) ==
    [cell_index |-> cell_index, order |-> order, next_ix |-> 0, chosen |-> None,
     undo |-> <<>>]

\* pop of the next cell and push of its frame
it_push(p, stk, v, popped) ==
    [puzzle |-> [p EXCEPT !.empty_cell_queue = popped.q],
     stack |-> Append(stk, Frame(popped.key,
                                 order_values_lcv([p EXCEPT !.empty_cell_queue = popped.q],
                                                  get_cell_coords(popped.key), popped.prio))),
     visitor |-> v, outcome |-> "descend"]

\* the prologue: the "already solved" branch, else the first frame
\* result: [puzzle, stack, visitor, outcome]
it_prologue(p, v) ==
    IF pq_is_empty(p.empty_cell_queue)
    THEN [puzzle |-> p, stack |-> <<>>, visitor |-> visit(v, p.grid).visitor,
          outcome |-> "solved"]
    ELSE it_push(p, <<>>, v, pq_pop(p.empty_cell_queue))

\* one iteration of the 'outer loop; result: [puzzle, stack, visitor, outcome]
it_iteration(p, stk, v) ==
    LET frame == stk[Len(stk)]
        coords == get_cell_coords(frame.cell_index)
        f1 == IF frame.chosen # None
              THEN [frame EXCEPT !.undo = <<>>, !.chosen = None]
              ELSE frame
        f2 == [f1 EXCEPT !.next_ix = @ + 1, !.undo = <<>>]
        num == f1.order[f1.next_ix + 1]
        visited(pz, stk3, r) ==
            [puzzle |-> pz, stack |-> stk3, visitor |-> r.visitor,
             outcome |-> IF r.keep THEN "visit" ELSE "break"]
        propagated(pr) ==
            IF pr.panic
            THEN [puzzle |-> pr.puzzle, stack |-> ReplaceTop(stk, f2), visitor |-> v,
                  outcome |-> "panic"]
            ELSE IF pr.dead_end
            THEN [puzzle |-> puzzle_delete(pr.puzzle, coords),
                  stack |-> ReplaceTop(stk, f2), visitor |-> v, outcome |-> "dead_end"]
            ELSE IF pq_is_empty(pr.puzzle.empty_cell_queue)
            THEN visited(pr.puzzle,
                         ReplaceTop(stk, [f2 EXCEPT !.undo = pr.undo, !.chosen = num]),
                         visit(v, pr.puzzle.grid))
            ELSE it_push(pr.puzzle,
                         ReplaceTop(stk, [f2 EXCEPT !.undo = pr.undo, !.chosen = num]),
                         v, pq_pop(pr.puzzle.empty_cell_queue))
        \* p1: the engine after the previous choice of this frame is undone
        undone(p1) ==
            IF f1.next_ix < Len(f1.order)
            THEN propagated(propagate_choice(puzzle_set(p1, coords, num), coords, num, <<>>))
            ELSE [puzzle |-> [p1 EXCEPT !.empty_cell_queue =
                                 insert_unsafe(@, frame.cell_index,
                                               get_element_set(p1, coords))],
                  stack |-> SubSeq(stk, 1, Len(stk) - 1), visitor |-> v,
                  outcome |-> "exhausted"]
    IN undone(IF frame.chosen # None
              THEN puzzle_delete([p EXCEPT !.empty_cell_queue =
                                     undo_replay(@, frame.undo, Len(frame.undo))], coords)
              ELSE p)

(***************************************************************************)
(* fill_from_rng                                                           *)
(* result of a turn of the main loop: [puzzle, stack, kind]                *)
(***************************************************************************)
GenFrame(cell_index, possibilities, undo) ==
    [cell_index |-> cell_index, possibilities |-> possibilities, undo |-> undo]

\* the cells in shuffled order, each with ElementSet::from(1..=9)
fill_pairs(all_cell_indexes) ==
    [i \in 1..Len(all_cell_indexes) |-> <<all_cell_indexes[i], CLASSIC>>]

\* fill_propagated that leaves the digit in the cell after a dead end
fill_propagated_keeps_digit(stk, cell_index, possibilities, pr) ==
    IF pr.panic THEN [puzzle |-> pr.puzzle, stack |-> stk, kind |-> "panic"]
    ELSE IF pr.dead_end
    THEN [puzzle |-> [pr.puzzle EXCEPT !.empty_cell_queue =
                                    insert_unsafe(@, cell_index, possibilities)],
          stack |-> stk, kind |-> "dead_end"]
    ELSE [puzzle |-> pr.puzzle,
          stack |-> Append(stk, GenFrame(cell_index, possibilities, pr.undo)),
          kind |-> "push"]

\* pr: the outcome of propagate_choice after the cell got num; possibilities is
\* what is left to try
fill_propagated(stk, cell_index, possibilities, pr) ==
    IF pr.panic THEN [puzzle |-> pr.puzzle, stack |-> stk, kind |-> "panic"]
    ELSE IF pr.dead_end
    THEN [puzzle |-> [puzzle_delete(pr.puzzle, get_cell_coords(cell_index))
                         EXCEPT !.empty_cell_queue =
                                    insert_unsafe(@, cell_index, possibilities)],
          stack |-> stk, kind |-> "dead_end"]
    ELSE [puzzle |-> pr.puzzle,
          stack |-> Append(stk, GenFrame(cell_index, possibilities, pr.undo)),
          kind |-> "push"]

\* the branch "if let Some(num) = current_possibilities.iter().choose(rng)"
fill_choose(p, stk, current_cell_index, current_possibilities, num) ==
    Val({fill_propagated(stk, current_cell_index, current_possibilities \ {num}, pr) :
            pr \in {Val({propagate_choice(placed, get_cell_coords(current_cell_index),
                                          num, <<>>) :
                            placed \in {puzzle_set(p, get_cell_coords(current_cell_index),
                                                   num)}})}})

\* fill_restored that gives the previous cell a fresh candidate set
fill_restored_forgets_tried(p, frame, current_cell_index) ==
    [p EXCEPT !.empty_cell_queue =
        Val({insert_unsafe(reset, frame.cell_index,
                           get_element_set(p, get_cell_coords(frame.cell_index))) :
                reset \in {Val({insert_unsafe(replayed, current_cell_index,
                                     get_element_set(p, get_cell_coords(current_cell_index))) :
                                   replayed \in {undo_replay(p.empty_cell_queue, frame.undo,
                                                             Len(frame.undo))}})}})]

\* fill_restored without the replay of the undo list
fill_restored_keeps_neighbours(p, frame, current_cell_index) ==
    [p EXCEPT !.empty_cell_queue =
        Val({insert_unsafe(reset, frame.cell_index, frame.possibilities) :
                reset \in {insert_unsafe(p.empty_cell_queue, current_cell_index,
                                     get_element_set(p, get_cell_coords(current_cell_index)))}})]

\* p: the engine with the previous cell deleted; undo replay, current cell reset,
\* previous cell back with its untried possibilities
fill_restored(p, frame, current_cell_index) ==
    [p EXCEPT !.empty_cell_queue =
        Val({insert_unsafe(reset, frame.cell_index, frame.possibilities) :
                reset \in {Val({insert_unsafe(replayed, current_cell_index,
                                     get_element_set(p, get_cell_coords(current_cell_index))) :
                                   replayed \in {undo_replay(p.empty_cell_queue, frame.undo,
                                                             Len(frame.undo))}})}})]

\* fill_backtrack that drops every frame of the stack
fill_backtrack_drops_frames(p, stk, current_cell_index) ==
    [puzzle |-> Val({fill_restored(deleted, stk[Len(stk)], current_cell_index) :
                        deleted \in {puzzle_delete(p, get_cell_coords(stk[Len(stk)].cell_index))}}),
     stack |-> <<>>,
     kind |-> "backtrack"]

\* the else branch, with a frame on the stack
fill_backtrack(p, stk, current_cell_index) ==
    [puzzle |-> Val({fill_restored(deleted, stk[Len(stk)], current_cell_index) :
                        deleted \in {puzzle_delete(p, get_cell_coords(stk[Len(stk)].cell_index))}}),
     stack |-> SubSeq(stk, 1, Len(stk) - 1),
     kind |-> "backtrack"]

(***************************************************************************)
(* minimize_from_rng                                                       *)
(***************************************************************************)
\* minimize_refresh that gives the first cell of buf its set and leaves the rest
minimize_refresh_first_only(p, buf, i) ==
    IF i > Len(buf) THEN p
    ELSE [p EXCEPT !.empty_cell_queue =
             insert_unsafe(p.empty_cell_queue, buf[i],
                           get_element_set(p, get_cell_coords(buf[i])))]

\* the for loop over buf: each cell of buf gets its current element set
RECURSIVE minimize_refresh(_, _, _)
minimize_refresh(p, buf, i) ==
    IF i > Len(buf) THEN p
    ELSE Val({minimize_refresh(refreshed, buf, i + 1) :
                 refreshed \in {[p EXCEPT !.empty_cell_queue =
                                    insert_unsafe(p.empty_cell_queue, buf[i],
                                                  get_element_set(p, get_cell_coords(buf[i])))]}})

\* the body of the while loop up to the call of is_well_posed, on the engine
\* after self.delete(cell_coords)
minimize_removed(deleted, cell_coords) ==
    [original_empty_cell_queue |-> deleted.empty_cell_queue,
     puzzle |-> minimize_refresh(deleted, collect_empty_neighbors_for(deleted, cell_coords), 1)]

\* minimize_restore that keeps the refreshed queue
minimize_restore_keeps_queue(p, cell_coords, cell_value, queue) ==
    puzzle_set(p, cell_coords, cell_value)

\* minimize_restore that resets the queue and leaves the cell empty
minimize_restore_leaves_empty(p, cell_coords, cell_value, queue) ==
    [p EXCEPT !.empty_cell_queue = queue]

\* the branch taken when the board is not well-posed: the value goes back and
\* the queue is reset
minimize_restore(p, cell_coords, cell_value, queue) ==
    [puzzle_set(p, cell_coords, cell_value) EXCEPT !.empty_cell_queue = queue]

(***************************************************************************)
(* Inputs: the grids of the repository's tests and the start grids built   *)
(* from them                                                               *)
(***************************************************************************)
\* From<[[u8; 9]; 9]> for ClassicGrid: rows is a sequence of 9 sequences of 9 u8
grid_from_array(rows) ==
    [r \in Idx |-> [c \in Idx |-> IF rows[r + 1][c + 1] = 0 THEN None ELSE rows[r + 1][c + 1]]]

\* tests::SEED_PUZZLE_SOLUTION_STR
SEED_PUZZLE_SOLUTION ==
    grid_from_array(<< <<5,6,2,1,4,3,9,8,7>>, <<3,7,8,2,5,9,6,1,4>>, <<9,4,1,7,8,6,3,2,5>>,
                       <<4,8,6,5,1,2,7,3,9>>, <<7,2,3,9,6,8,5,4,1>>, <<1,5,9,4,3,7,8,6,2>>,
                       <<2,3,4,8,7,5,1,9,6>>, <<8,9,7,6,2,1,4,5,3>>, <<6,1,5,3,9,4,2,7,8>> >>)

\* tests::HARD_PUZZLE_SOLUTION_STR
HARD_PUZZLE_SOLUTION ==
    grid_from_array(<< <<7,4,5,3,6,8,9,1,2>>, <<8,1,9,5,7,2,4,6,3>>, <<3,6,2,4,9,1,8,5,7>>,
                       <<6,9,3,8,2,4,5,7,1>>, <<4,2,1,6,5,7,3,9,8>>, <<5,8,7,1,3,9,6,2,4>>,
                       <<1,5,8,7,4,6,2,3,9>>, <<9,7,6,2,8,3,1,4,5>>, <<2,3,4,9,1,5,7,8,6>> >>)

\* tests::SEED_PUZZLE_MINIMUM_STR
SEED_PUZZLE_MINIMUM ==
    grid_from_array(<< <<0,6,0,1,0,0,0,8,7>>, <<0,0,0,0,0,9,0,0,4>>, <<9,0,0,7,8,0,3,0,0>>,
                       <<0,0,6,5,0,2,0,0,0>>, <<0,0,0,9,0,8,0,0,0>>, <<0,0,0,0,3,0,0,0,0>>,
                       <<2,0,0,0,7,0,0,0,6>>, <<8,9,7,0,2,0,4,0,0>>, <<0,0,5,0,0,0,0,0,8>> >>)

BaseGrids == <<SEED_PUZZLE_SOLUTION, HARD_PUZZLE_SOLUTION, SEED_PUZZLE_MINIMUM>>

\* the sets of digits whose clues are cleared from a base grid
ClearDigitSets == SUBSET {1, 2, 3}

\* digits a cell may take without repeating a digit of its row, column or box
GridCandidates(g, r, c) ==
    Digits \ ({g[r][j] : j \in Idx} \cup {g[i][c] : i \in Idx}
              \cup {g[(r \div 3) * 3 + (k \div 3)][(c \div 3) * 3 + (k % 3)] : k \in Idx})

EmptyCellsOf(g) == {ci \in Cells : g[ci \div 9][ci % 9] = None}

\* base with the digits ds cleared in the rows below clear_rows; when wrong > 0 the
\* wrong-th empty cell (in index order) is given its smallest candidate that differs
\* from the base digit, if there is one
StartGrid(base, ds, clear_rows, wrong) ==
    LET g0 == [r \in Idx |-> [c \in Idx |->
                  IF base[r][c] \in ds /\ r < clear_rows THEN None ELSE base[r][c]]]
        empties == EmptyCellsOf(g0)
        below(ci) == Cardinality({x \in empties : x < ci})
        target == {ci \in empties : below(ci) = wrong - 1}
    IN IF wrong = 0 \/ target = {} THEN g0
       ELSE LET ci == CHOOSE x \in target : TRUE
                others == GridCandidates(g0, ci \div 9, ci % 9) \ {base[ci \div 9][ci % 9]}
            IN IF others = {} THEN g0
               ELSE grid_set(g0, ci \div 9, ci % 9,
                             CHOOSE d \in others : \A e \in others : d <= e)

\* The random stream of a seed. fill_from_rng and minimize_from_rng take any
\* T: Rng; the streams tried are those of the generator x -> 75 x + 74 mod 65537.
rng_next(x) == (x * 75 + 74) % 65537

\* rng.random_range(0..n)
random_range(x, n) == x % n

\* slice.shuffle(rng) of the cells 0..80 for the stream state x: a permutation
\* i -> (step * i + x) mod 81 with a step prime to 81
shuffle(x) == [i \in 1..BOARD_SIZE |-> ((3 * (x % 27) + 1) * (i - 1) + x) % BOARD_SIZE]

\* iter().choose(rng): a uniform draw among the elements, in iteration order
choose(set, x) == es_iter(set)[random_range(x, es_len(set)) + 1]

(***************************************************************************)
(* Reference: the valid completions of a grid, computed from the grid      *)
(* alone (no sets, no queue).                                              *)
(***************************************************************************)
GroupsOf(g) ==
    {{<<r, c>> : c \in Idx} : r \in Idx} \cup {{<<r, c>> : r \in Idx} : c \in Idx}
    \cup {{<<(b \div 3) * 3 + (k \div 3), (b % 3) * 3 + (k % 3)>> : k \in Idx} : b \in Idx}

\* every cell filled, each digit exactly once in each row, column and box
IsSolved(g) ==
    \A grp \in GroupsOf(g) : {g[rc[1]][rc[2]] : rc \in grp} = Digits

\* no digit twice in a row, column or box
NoRepeat(g) ==
    \A grp \in GroupsOf(g) : \A x, y \in grp :
        (x # y /\ g[x[1]][x[2]] # None) => g[x[1]][x[2]] # g[y[1]][y[2]]

Agrees(full, g) ==
    \A r, c \in Idx : g[r][c] # None => full[r][c] = g[r][c]

\* the cells a and b share a row, a column or a box
Peers(a, b) ==
    \/ a \div 9 = b \div 9
    \/ a % 9 = b % 9
    \/ (a \div 27 = b \div 27 /\ (a % 9) \div 3 = (b % 9) \div 3)

\* a node of the reference search: a grid and the candidates of its empty cells
RefNode(g) ==
    [g |-> g, cand |-> [ci \in EmptyCellsOf(g) |-> GridCandidates(g, ci \div 9, ci % 9)]]

\* the node after each cell of cells took the one candidate it has
RefPlace(node, cells) ==
    [g |-> [r \in Idx |-> [c \in Idx |->
               IF r * 9 + c \in cells THEN Val(node.cand[r * 9 + c]) ELSE node.g[r][c]]],
     cand |-> [x \in DOMAIN node.cand \ cells |->
                 node.cand[x] \ UNION {node.cand[y] : y \in {z \in cells : Peers(x, z)}}]]

\* the node with the candidates of cell ci cut down to d
RefGuess(node, ci, d) == [node EXCEPT !.cand[ci] = {d}]

\* the cells of the node that have n candidates
RefCells(node, n) == {x \in DOMAIN node.cand : Cardinality(node.cand[x]) = n}

\* two cells with one candidate each that share a group and the candidate
RefClash(node) ==
    \E x, y \in RefCells(node, 1) : x # y /\ Peers(x, y) /\ node.cand[x] = node.cand[y]

\* a cell of the node with the fewest candidates
RefCell(node) ==
    CHOOSE x \in DOMAIN node.cand :
        \A y \in DOMAIN node.cand : Cardinality(node.cand[x]) <= Cardinality(node.cand[y])

RECURSIVE RefSearch(_, _, _)
RECURSIVE RefTry(_, _, _, _, _)
\* acc extended by completions of the node, stopping once it holds limit grids:
\* the cells with one candidate are filled together, else a cell with the
\* fewest candidates is tried with each of them
RefSearch(node, acc, limit) ==
    IF Cardinality(acc) >= limit \/ RefCells(node, 0) # {} \/ RefClash(node) THEN acc
    ELSE IF DOMAIN node.cand = {}
    THEN (IF IsSolved(node.g) THEN acc \cup {node.g} ELSE acc)
    ELSE IF RefCells(node, 1) # {}
    THEN RefSearch(RefPlace(node, RefCells(node, 1)), acc, limit)
    ELSE RefTry(node, RefCell(node), 1, acc, limit)

\* the candidates of cell ci tried in turn from the i-th on
RefTry(node, ci, i, acc, limit) ==
    IF Cardinality(acc) >= limit \/ i > Cardinality(node.cand[ci]) THEN acc
    ELSE RefTry(node, ci, i + 1,
                RefSearch(RefGuess(node, ci, es_iter(node.cand[ci])[i]), acc, limit), limit)

\* all valid completions of g
Completions(g) == RefSearch(RefNode(g), {}, 1000000)
\* min(number of valid completions of g, limit)
CompletionsUpTo(g, limit) == Cardinality(RefSearch(RefNode(g), {}, limit))

(***************************************************************************)
(* State                                                                   *)
(***************************************************************************)
VARIABLES
    start,      \* the grid the engine was built from
    puzzle,     \* the ClassicPuzzle (self)
    search,     \* the engine handed by value to visit_solutions_*
    stack,      \* dfs activations / iterative frames / fill_from_rng frames
    visitor,    \* captured state of the visitor closure
    ret,        \* the value the last call of visit or dfs returned
    pc,         \* control position
    op,         \* the operation that is run: [name, max_count]
    outcome,    \* what the last step did
    returned,   \* what the finished enumerations returned, in call order
    rng,        \* the random stream: its state
    seen,       \* the kinds of step fill_from_rng / minimize_from_rng has taken so far
    unattempted_filled_cell_pairs,  \* minimize_from_rng: the shuffled pairs left
    current,                        \* minimize_from_rng: the pair popped last
    original_empty_cell_queue,      \* minimize_from_rng: the clone of the queue
    pq,         \* an ArrayPriorityQueue called on its own
    args,       \* the arguments of the last call of a function called on its own
    result      \* what that call returned

\* the variables of a running enumeration
searchVars == <<search, stack, visitor, ret>>

\* the state of the functions called on their own
unitVars == <<pq, args, result>>

\* the operation that is run and what only the calls of single functions change
opVars == <<op, unitVars>>

\* the variables of the callers of the enumerations
callVars == <<start, opVars, outcome, returned>>

\* the random stream and the record of the steps taken
rngVars == <<rng, seen>>

\* the locals of minimize_from_rng
minVars == <<unattempted_filled_cell_pairs, current, original_empty_cell_queue>>

vars == <<puzzle, pc, searchVars, callVars, rngVars, minVars>>

\* the engine before any enumeration was handed one
NoSearch == puzzle_new

Bounded(o) == o.name = "find_solutions_bounded"

\* the closure of find_solutions_* / find_solutions_bounded_*(_, max_count)
closure(o) == visitor_new(Bounded(o), o.max_count)

\* what an enumeration hands back: the closure's captures (sols, count)
Returned(engine, v, how) == [engine |-> engine, visitor |-> v, outcome |-> how]

(***************************************************************************)
(* find_solutions / count_solutions (bounded or not) with the recursive    *)
(* and then the iterative engine on the same grid, and is_well_posed       *)
(***************************************************************************)
InitVisit ==
    \E b \in 1..Len(BaseGrids), ds \in ClearDigitSets, clear_rows \in 0..SIDE,
       wrong \in 0..MaxWrong, max_count \in 0..MaxBound,
       name \in {"find_solutions", "find_solutions_bounded", "is_well_posed"} :
        /\ (name # "find_solutions_bounded") => max_count = 0
        /\ (EmptyCellsOf(BaseGrids[b]) # {}) => (ds = {} /\ clear_rows = 0)
        /\ start = StartGrid(BaseGrids[b], ds, clear_rows, wrong)
        /\ puzzle = from_grid(start)
        /\ search = NoSearch
        /\ stack = <<>>
        /\ visitor = visitor_new(FALSE, 0)
        /\ ret = TRUE
        /\ pc = "idle"
        /\ op = [name |-> name, max_count |-> max_count]
        /\ outcome = "none"
        /\ returned = <<>>
        /\ rng = 0
        /\ seen = {}
        /\ unattempted_filled_cell_pairs = <<>>
        /\ current = <<0, None>>
        /\ original_empty_cell_queue = pq_new
        /\ pq = pq_new
        /\ args = <<>>
        /\ result = <<>>

\* find_solutions[_bounded]_recursive(puzzle.clone(), ..) up to the call of dfs;
\* with max_count = 0 it returns before the search
CallRecursive ==
    /\ pc = "idle"
    /\ op.name \in {"find_solutions", "find_solutions_bounded"}
    /\ returned = <<>>
    /\ IF Bounded(op) /\ op.max_count = 0
       THEN /\ returned' = <<Returned("recursive", closure(op), "skipped")>>
            /\ UNCHANGED <<searchVars, pc>>
       ELSE /\ search' = puzzle
            /\ stack' = <<>>
            /\ visitor' = closure(op)
            /\ pc' = "dfs_call"
            /\ UNCHANGED <<ret, returned>>
    /\ UNCHANGED <<start, puzzle, opVars, outcome>>
    /\ UNCHANGED <<rngVars, minVars>>

\* a step of the dfs machine: r is [puzzle, stack, visitor, ret, at]; outside
\* minimize_from_rng, args gets the engine a dfs activation was entered with
\* (its argument) when the activation begins and loses it when it returns
DfsStep(r) ==
    /\ search' = r.puzzle
    /\ stack' = r.stack
    /\ visitor' = r.visitor
    /\ ret' = r.ret
    /\ pc' = r.at
    /\ args' = IF op.name = "minimize_from_rng" THEN args
               ELSE IF Len(r.stack) > Len(stack) THEN Append(args, search)
               ELSE IF Len(r.stack) < Len(stack) THEN SubSeq(args, 1, Len(r.stack))
               ELSE args
    /\ UNCHANGED <<start, puzzle, op, pq, result, outcome, returned>>
    /\ UNCHANGED <<rngVars, minVars>>

\* dfs is entered: visit if the queue is empty, else pop and order the values
DfsEnter ==
    /\ pc = "dfs_call"
    /\ \E r \in {dfs_enter(search, stack, visitor)} : DfsStep(r)

\* one turn of the for loop of the top activation
DfsIteration ==
    /\ pc = "dfs_loop"
    /\ \E r \in {dfs_iteration(search, stack, visitor)} : DfsStep(r)

\* visit or dfs has returned into the top activation
DfsReturn ==
    /\ pc = "dfs_return"
    /\ stack # <<>>
    /\ \E r \in {dfs_return(search, stack, visitor, ret)} : DfsStep(r)

\* the outermost dfs has returned: find_solutions[_bounded]_recursive returns
RecursiveReturned ==
    /\ pc = "dfs_return"
    /\ stack = <<>>
    /\ op.name \in {"find_solutions", "find_solutions_bounded"}
    /\ returned' = Append(returned,
                          Returned("recursive", visitor, IF ret THEN "exhausted" ELSE "break"))
    /\ pc' = "idle"
    /\ UNCHANGED <<start, puzzle, searchVars, opVars, outcome>>
    /\ UNCHANGED <<rngVars, minVars>>

\* find_solutions[_bounded]_iterative(puzzle.clone(), ..) up to visit_solutions_iterative
CallIterative ==
    /\ pc = "idle"
    /\ op.name \in {"find_solutions", "find_solutions_bounded"}
    /\ Len(returned) = 1
    /\ IF Bounded(op) /\ op.max_count = 0
       THEN /\ returned' = Append(returned, Returned("iterative", closure(op), "skipped"))
            /\ pc' = "done"
            /\ UNCHANGED searchVars
       ELSE /\ search' = puzzle
            /\ stack' = <<>>
            /\ visitor' = closure(op)
            /\ pc' = "it_call"
            /\ UNCHANGED <<ret, returned>>
    /\ UNCHANGED <<start, puzzle, opVars, outcome>>
    /\ UNCHANGED <<rngVars, minVars>>

\* visit_solutions_iterative up to the main loop
IterativeStart ==
    /\ pc = "it_call"
    /\ \E r \in {it_prologue(search, visitor)} :
          /\ search' = r.puzzle
          /\ stack' = r.stack
          /\ visitor' = r.visitor
          /\ outcome' = r.outcome
          /\ pc' = IF r.outcome = "solved" THEN "it_return" ELSE "it_loop"
    /\ UNCHANGED <<start, puzzle, ret, opVars, returned>>
    /\ UNCHANGED <<rngVars, minVars>>

\* IterativeStep that goes on after the visitor returned false
IterativeStep_ignores_break ==
    /\ pc = "it_loop"
    /\ \E r \in {it_iteration(search, stack, visitor)} :
          /\ search' = r.puzzle
          /\ stack' = r.stack
          /\ visitor' = r.visitor
          /\ outcome' = r.outcome
          /\ pc' = IF r.outcome = "panic" THEN "panic"
                   ELSE IF r.stack = <<>> THEN "it_return"
                   ELSE "it_loop"
    /\ UNCHANGED <<start, puzzle, ret, opVars, returned>>
    /\ UNCHANGED <<rngVars, minVars>>

\* one iteration of the main loop of visit_solutions_iterative
IterativeStep ==
    /\ pc = "it_loop"
    /\ \E r \in {it_iteration(search, stack, visitor)} :
          /\ search' = r.puzzle
          /\ stack' = r.stack
          /\ visitor' = r.visitor
          /\ outcome' = r.outcome
          /\ pc' = IF r.outcome = "panic" THEN "panic"
                   ELSE IF r.outcome = "break" \/ r.stack = <<>> THEN "it_return"
                   ELSE "it_loop"
    /\ UNCHANGED <<start, puzzle, ret, opVars, returned>>
    /\ UNCHANGED <<rngVars, minVars>>

\* visit_solutions_iterative has returned: find_solutions[_bounded]_iterative returns
IterativeReturned ==
    /\ pc = "it_return"
    /\ returned' = Append(returned, Returned("iterative", visitor, outcome))
    /\ pc' = "done"
    /\ UNCHANGED <<start, puzzle, searchVars, opVars, outcome>>
    /\ UNCHANGED <<rngVars, minVars>>

\* is_well_posed(&self) up to the call of dfs on the clone
CallIsWellPosed ==
    /\ pc = "idle"
    /\ op.name = "is_well_posed"
    /\ search' = puzzle
    /\ stack' = <<>>
    /\ visitor' = is_well_posed_visitor
    /\ pc' = "dfs_call"
    /\ UNCHANGED <<start, puzzle, ret, opVars, outcome, returned>>
    /\ UNCHANGED <<rngVars, minVars>>

\* the search of the clone has returned: is_well_posed returns count == 1
IsWellPosedReturned ==
    /\ pc = "dfs_return"
    /\ stack = <<>>
    /\ op.name = "is_well_posed"
    /\ outcome' = IF is_well_posed_result(visitor) THEN "well_posed" ELSE "not_well_posed"
    /\ pc' = "done"
    /\ UNCHANGED <<start, puzzle, searchVars, opVars, returned>>
    /\ UNCHANGED <<rngVars, minVars>>

NextVisit ==
    \/ CallRecursive \/ DfsEnter \/ DfsIteration \/ DfsReturn \/ RecursiveReturned
    \/ CallIterative \/ IterativeStart \/ IterativeStep \/ IterativeReturned
    \/ CallIsWellPosed \/ IsWellPosedReturned

SpecVisit == InitVisit /\ [][NextVisit]_vars

(***************************************************************************)
(* Properties of the enumeration                                           *)
(***************************************************************************)
FindDone == pc = "done" /\ op.name \in {"find_solutions", "find_solutions_bounded"}

C8_WellPosedIffUnique ==
    (pc = "done" /\ op.name = "is_well_posed" /\ NoRepeat(start)) =>
        ((outcome = "well_posed") <=> (CompletionsUpTo(start, 2) = 1))

C8_Witness ==
    /\ pc = "done" /\ op.name = "is_well_posed"
    /\ outcome = "not_well_posed"
    /\ CompletionsUpTo(start, 2) = 2

InitFill ==
    \E seed \in 1..NumSeeds :
        /\ start = grid_default
        /\ puzzle = puzzle_new
        /\ search = NoSearch
        /\ stack = <<>>
        /\ visitor = visitor_new(FALSE, 0)
        /\ ret = TRUE
        /\ pc = "fill_call"
        /\ op = [name |-> "fill_from_rng", max_count |-> 0]
        /\ outcome = "none"
        /\ returned = <<>>
        /\ rng = seed
        /\ seen = {}
        /\ unattempted_filled_cell_pairs = <<>>
        /\ current = <<0, None>>
        /\ original_empty_cell_queue = pq_new
        /\ pq = pq_new
        /\ args = <<>>
        /\ result = <<>>

\* whether the next choice is drawn from the stream: in a call of fill_from_rng
\* on its own, on an engine with at most one filled cell, the choices for the
\* last MaxFree cells are any of the untried digits
Drawn ==
    \/ Len(stack) < BOARD_SIZE - MaxFree
    \/ Cardinality(EmptyCellsOf(start)) < BOARD_SIZE - 1
    \/ op.name = "from_seed"

\* the row, column and box sets of p
SetsOf(p) == <<p.row_sets, p.col_sets, p.box_sets>>

\* a turn of the main loop has been taken: r is [puzzle, stack, kind]; args
\* keeps, frame by frame, the sets as they were before the frame's digit was set
FillTurn(r) ==
    /\ puzzle' = r.puzzle
    /\ stack' = r.stack
    /\ seen' = seen \cup ({r.kind} \ {"push"})
    /\ pc' = IF r.kind = "panic" THEN "panic" ELSE "fill_loop"
    /\ args' = IF r.kind = "push" THEN Append(args, SetsOf(puzzle))
               ELSE IF r.kind = "backtrack" THEN SubSeq(args, 1, Len(r.stack))
               ELSE args
    /\ UNCHANGED <<search, visitor, ret, start, op, pq, result, outcome, returned, minVars>>

\* fill_from_rng up to the main loop: shuffle, fill_from_iter_unsafe, empty stack
FillStart ==
    /\ pc = "fill_call"
    /\ puzzle' = [puzzle EXCEPT !.empty_cell_queue =
                     fill_from_iter_unsafe(@, fill_pairs(shuffle(rng)))]
    /\ stack' = <<>>
    /\ rng' = rng_next(rng)
    /\ pc' = "fill_loop"
    /\ UNCHANGED <<search, visitor, ret, callVars, seen, minVars>>

\* a turn of the main loop that pops a cell with untried possibilities: one is
\* chosen, set and propagated; a dead end puts the cell back, else a frame is pushed
FillChoose ==
    /\ pc = "fill_loop"
    /\ \E cell \in {pq_pop(puzzle.empty_cell_queue)} :
          /\ cell.some
          /\ cell.prio # {}
          /\ \E num \in cell.prio :
                /\ Drawn => num = choose(cell.prio, rng)
                /\ \E r \in {fill_choose([puzzle EXCEPT !.empty_cell_queue = cell.q],
                                         stack, cell.key, cell.prio, num)} : FillTurn(r)
    /\ rng' = IF Drawn THEN rng_next(rng) ELSE rng

\* a turn of the main loop that pops a cell with nothing left to try: the last
\* frame is popped (unwrap) and undone
FillBacktrack ==
    /\ pc = "fill_loop"
    /\ \E cell \in {pq_pop(puzzle.empty_cell_queue)} :
          /\ cell.some
          /\ cell.prio = {}
          /\ IF stack = <<>>
             THEN FillTurn([puzzle |-> puzzle, stack |-> stack, kind |-> "panic"])
             ELSE \E r \in {fill_backtrack([puzzle EXCEPT !.empty_cell_queue = cell.q],
                                           stack, cell.key)} : FillTurn(r)
    /\ UNCHANGED rng

\* the queue is empty: the loop ends and fill_from_rng returns
FillReturned ==
    /\ pc = "fill_loop"
    /\ pq_is_empty(puzzle.empty_cell_queue)
    /\ pc' = "done"
    /\ UNCHANGED <<puzzle, searchVars, callVars, rngVars, minVars>>

NextFill == FillStart \/ FillChoose \/ FillBacktrack \/ FillReturned

SpecFill == InitFill /\ [][NextFill]_vars

\* fill_from_rng is a sequential loop: while a turn can be taken, one is taken
SpecFillFair == SpecFill /\ WF_vars(NextFill)

(***************************************************************************)
(* Properties of fill_from_rng                                             *)
(***************************************************************************)
\* C2: when fill_from_rng returns, all 81 cells are filled and every row, column
\* and box holds each digit 1..9 exactly once.
C2_FillReturnsASolvedGrid ==
    (pc = "done" /\ op.name = "fill_from_rng") =>
        /\ EmptyCellsOf(puzzle.grid) = {}
        /\ IsSolved(puzzle.grid)

C2_Witness ==
    /\ pc = "done" /\ op.name = "fill_from_rng"
    /\ Len(stack) = BOARD_SIZE
    /\ "backtrack" \in seen

\* C3: fill_from_rng terminates: every run of the main loop reaches the empty
\* queue and returns (no unwrap of an empty stack, no endless retrying).
C3_FillTerminates == <>(pc = "done")

C3_Witness ==
    /\ pc = "done" /\ op.name = "fill_from_rng"
    /\ {"dead_end", "backtrack"} \subseteq seen
    /\ ~Drawn

(***************************************************************************)
(* minimize_from_rng on a solved engine                                    *)
(***************************************************************************)
\* the solved grids minimize_from_rng is started on
SolvedGrids == <<SEED_PUZZLE_SOLUTION, HARD_PUZZLE_SOLUTION>>

\* SEED_PUZZLE_MINIMUM with three more digits of its solution: a grid with
\* empty cells, one completion and clues that can go
PartialGrid == [SEED_PUZZLE_MINIMUM EXCEPT ![0][0] = 5, ![4][4] = 6, ![8][0] = 6]

\* the grids minimize_from_rng is called on
MinimizeGrids == SolvedGrids \o <<PartialGrid>>

\* pairs.shuffle(rng) for the stream state x: the pairs in the order shuffle(x)
\* gives their cells
shuffle_pairs(pairs, x) ==
    Val({[j \in 1..Len(order) |-> CHOOSE pair \in SeqSet(pairs) : pair[1] = order[j]] :
            order \in {SelectSeq(shuffle(x), LAMBDA ci :
                                     \E pair \in SeqSet(pairs) : pair[1] = ci)}})

InitMin ==
    \E b \in 1..Len(MinimizeGrids), seed \in 1..NumShuffles :
        /\ start = MinimizeGrids[b]
        /\ puzzle = from_grid(start)
        /\ search = NoSearch
        /\ stack = <<>>
        /\ visitor = visitor_new(FALSE, 0)
        /\ ret = TRUE
        /\ pc = "min_call"
        /\ op = [name |-> "minimize_from_rng", max_count |-> 0]
        /\ outcome = "none"
        /\ returned = <<>>
        /\ rng = seed
        /\ seen = {}
        /\ unattempted_filled_cell_pairs = <<>>
        /\ current = <<0, None>>
        /\ original_empty_cell_queue = pq_new
        /\ pq = pq_new
        /\ args = <<>>
        /\ result = <<>>

\* minimize_from_rng up to the while loop: the filled pairs, shuffled
MinimizeStart ==
    /\ pc = "min_call"
    /\ unattempted_filled_cell_pairs' = shuffle_pairs(get_all_filled_cell_pairs(puzzle), rng)
    /\ rng' = rng_next(rng)
    /\ pc' = "min_loop"
    /\ UNCHANGED <<puzzle, searchVars, callVars, seen, current, original_empty_cell_queue>>

\* a turn of the while loop up to the search of is_well_posed: the last pair is
\* popped, the cell deleted, the queue cloned and refreshed, the engine cloned;
\* args keeps the engine as it was when the turn began, returned the cells
\* popped so far
MinimizeRemove ==
    /\ pc = "min_loop"
    /\ unattempted_filled_cell_pairs # <<>>
    /\ current' = unattempted_filled_cell_pairs[Len(unattempted_filled_cell_pairs)]
    /\ unattempted_filled_cell_pairs' =
           SubSeq(unattempted_filled_cell_pairs, 1, Len(unattempted_filled_cell_pairs) - 1)
    /\ \E r \in {Val({minimize_removed(deleted, get_cell_coords(current'[1])) :
                         deleted \in {puzzle_delete(puzzle, get_cell_coords(current'[1]))}})} :
          /\ original_empty_cell_queue' = r.original_empty_cell_queue
          /\ puzzle' = r.puzzle
          /\ search' = r.puzzle
    /\ stack' = <<>>
    /\ visitor' = is_well_posed_visitor
    /\ pc' = "dfs_call"
    /\ args' = [before |-> puzzle]
    /\ returned' = Append(returned, current'[1])
    /\ UNCHANGED <<ret, start, op, pq, result, outcome, rngVars>>

\* is_well_posed has returned into the while loop: a board that is not
\* well-posed gets the value back and the cloned queue
MinimizeChecked ==
    /\ pc = "dfs_return"
    /\ stack = <<>>
    /\ op.name = "minimize_from_rng"
    /\ IF is_well_posed_result(visitor)
       THEN /\ seen' = seen \cup {"removed"}
            /\ UNCHANGED puzzle
       ELSE /\ seen' = seen \cup {"restored"}
            /\ puzzle' = minimize_restore(puzzle, get_cell_coords(current[1]), current[2],
                                          original_empty_cell_queue)
    /\ pc' = "min_loop"
    /\ UNCHANGED <<searchVars, callVars, rng, minVars>>

\* no pair is left: minimize_from_rng returns
MinimizeReturned ==
    /\ pc = "min_loop"
    /\ unattempted_filled_cell_pairs = <<>>
    /\ pc' = "done"
    /\ UNCHANGED <<puzzle, searchVars, callVars, rngVars, minVars>>

NextMin ==
    \/ MinimizeStart \/ MinimizeRemove \/ DfsEnter \/ DfsIteration \/ DfsReturn
    \/ MinimizeChecked \/ MinimizeReturned

SpecMin == InitMin /\ [][NextMin]_vars

(***************************************************************************)
(* Properties of minimize_from_rng                                         *)
(***************************************************************************)
MinDone == pc = "done" /\ op.name = "minimize_from_rng"

\* the cells of g that hold a clue
FilledCellsOf(g) == Cells \ EmptyCellsOf(g)

\* C4: when minimize_from_rng returns on a solved engine, the grid left has
\* exactly one valid completion; so it has at the head of every turn of the
\* while loop.
C4_MinimizedIsWellPosed ==
    (op.name = "minimize_from_rng" /\ pc \in {"min_loop", "done"}) =>
        CompletionsUpTo(puzzle.grid, 2) = 1

C4_Witness ==
    /\ MinDone
    /\ {"removed", "restored"} \subseteq seen
    /\ EmptyCellsOf(puzzle.grid) # {}
    /\ Agrees(start, puzzle.grid)

\* C5: when minimize_from_rng returns on a solved engine, clearing any one of
\* the clues left gives a grid with more than one valid completion.
C5_MinimizedIsIrreducible ==
    MinDone =>
        \A ci \in FilledCellsOf(puzzle.grid) :
            CompletionsUpTo(grid_set(puzzle.grid, ci \div 9, ci % 9, None), 2) = 2

C5_Witness ==
    /\ MinDone
    /\ "restored" \in seen
    /\ FilledCellsOf(puzzle.grid) # {}
    /\ Cardinality(FilledCellsOf(puzzle.grid)) < BOARD_SIZE \div 2

(***************************************************************************)
(* The public operations of ClassicPuzzle, called one after the other:     *)
(* new, From<ClassicGrid>, set, delete, remove_n_random_filled_cells       *)
(***************************************************************************)
\* the number of operations called on an engine
MaxOps == 3

\* the n of remove_n_random_filled_cells
MaxRemove == 2

\* the cells set and delete are called on: two of a row and a box, one more of
\* the box
OpCells == {0, 1, 10}

\* the digits set is called with
OpDigits == {1, 2}

\* SEED_PUZZLE_MINIMUM with a second 7 in its first row
DuplicateGrid == grid_set(SEED_PUZZLE_MINIMUM, 0, 1, 7)

\* the grids From<ClassicGrid> is called with
OpGrids ==
    {grid_default, SEED_PUZZLE_SOLUTION, SEED_PUZZLE_MINIMUM, DuplicateGrid,
     StartGrid(SEED_PUZZLE_SOLUTION, {1, 2}, 5, 1),
     StartGrid(HARD_PUZZLE_SOLUTION, {1, 2, 3}, SIDE, 0)}

\* one turn of the loop of remove_n_random_filled_cells: delete, then the
\* cell's entry is put into the queue
remove_filled_cell(p, cell_index) ==
    Val({[deleted EXCEPT !.empty_cell_queue =
              insert_unsafe(@, cell_index,
                            get_element_set(deleted, get_cell_coords(cell_index)))] :
            deleted \in {puzzle_delete(p, get_cell_coords(cell_index))}})

\* the loop: [puzzle, rng, panic]; random_range panics on the empty range
RECURSIVE remove_n_loop(_, _, _, _)
remove_n_loop(p, filled_cell_pairs, x, n) ==
    IF n = 0 THEN [puzzle |-> p, rng |-> x, panic |-> FALSE]
    ELSE IF Len(filled_cell_pairs) = 0 THEN [puzzle |-> p, rng |-> x, panic |-> TRUE]
    ELSE Val({remove_n_loop(removed, filled_cell_pairs, rng_next(x), n - 1) :
                 removed \in {remove_filled_cell(p,
                     filled_cell_pairs[random_range(x, Len(filled_cell_pairs)) + 1][1])}})

remove_n_random_filled_cells(p, x, n) ==
    remove_n_loop(p, get_all_filled_cell_pairs(p), x, n)

InitOps ==
    \E seed \in 1..NumShuffles :
        /\ start = grid_default
        /\ puzzle = puzzle_new
        /\ search = NoSearch
        /\ stack = <<>>
        /\ visitor = visitor_new(FALSE, 0)
        /\ ret = TRUE
        /\ pc = "ops"
        /\ op = [name |-> "ops", max_count |-> 0]
        /\ outcome = "new"
        /\ returned = <<>>
        /\ rng = seed
        /\ seen = {}
        /\ unattempted_filled_cell_pairs = <<>>
        /\ current = <<0, None>>
        /\ original_empty_cell_queue = pq_new
        /\ pq = pq_new
        /\ args = <<>>
        /\ result = <<>>

\* what the operations leave alone
OpFrame == UNCHANGED <<searchVars, opVars, minVars>>

\* an operation may be called: the last one returned
OpReady == pc = "ops" /\ Len(returned) < MaxOps

\* ClassicPuzzle::new()
OpNew ==
    /\ OpReady
    /\ puzzle' = puzzle_new
    /\ start' = grid_default
    /\ seen' = {}
    /\ outcome' = "new"
    /\ returned' = Append(returned, "new")
    /\ UNCHANGED <<pc, rng>>
    /\ OpFrame

\* ClassicPuzzle::from(grid)
OpFromGrid ==
    /\ OpReady
    /\ \E g \in OpGrids :
        /\ puzzle' = from_grid(g)
        /\ start' = g
    /\ seen' = {}
    /\ outcome' = "from_grid"
    /\ returned' = Append(returned, "from_grid")
    /\ UNCHANGED <<pc, rng>>
    /\ OpFrame

\* puzzle.set(coords, val)
OpSet ==
    /\ OpReady
    /\ \E ci \in OpCells, val \in OpDigits :
        puzzle' = puzzle_set(puzzle, get_cell_coords(ci), val)
    /\ seen' = seen \cup {"set"}
    /\ outcome' = "set"
    /\ returned' = Append(returned, "set")
    /\ UNCHANGED <<pc, rng, start>>
    /\ OpFrame

\* puzzle.delete(coords)
OpDelete ==
    /\ OpReady
    /\ \E ci \in OpCells :
        puzzle' = puzzle_delete(puzzle, get_cell_coords(ci))
    /\ seen' = seen \cup {"delete"}
    /\ outcome' = "delete"
    /\ returned' = Append(returned, "delete")
    /\ UNCHANGED <<pc, rng, start>>
    /\ OpFrame

\* puzzle.remove_n_random_filled_cells(rng, n)
OpRemoveN ==
    /\ OpReady
    /\ \E n \in 0..MaxRemove :
        \E r \in {remove_n_random_filled_cells(puzzle, rng, n)} :
            /\ puzzle' = r.puzzle
            /\ rng' = r.rng
            /\ pc' = IF r.panic THEN "panic" ELSE "ops"
    /\ seen' = seen \cup {"remove_n"}
    /\ outcome' = "remove_n"
    /\ returned' = Append(returned, "remove_n")
    /\ UNCHANGED start
    /\ OpFrame

NextOps == OpNew \/ OpFromGrid \/ OpSet \/ OpDelete \/ OpRemoveN

SpecOps == InitOps /\ [][NextOps]_vars

\* the queue of p has an entry for the cell
has_entry(p, ci) ==
    ci < Len(p.empty_cell_queue.map) /\ p.empty_cell_queue.map[ci + 1].some

\* the invariant of the engine at one cell
CellInvariant(p, ci) ==
    LET coords == get_cell_coords(ci)
        v == get_by_row_col(p.grid, coords[1], coords[2])
    IN IF v = None
       THEN /\ has_entry(p, ci)
            /\ p.empty_cell_queue.map[ci + 1].prio = get_element_set(p, coords)
       ELSE /\ ~has_entry(p, ci)
            /\ v \notin p.row_sets[coords[1]]
            /\ v \notin p.col_sets[coords[2]]
            /\ v \notin p.box_sets[coords[3]]

EngineInvariant(p) == \A ci \in Cells : CellInvariant(p, ci)

\* C11: when a public operation of the engine has returned, every empty cell
\* has a queue entry whose priority is the intersection of its row, column and
\* box sets, and every filled cell has no queue entry and its digit is in none
\* of its three sets.
C11_EngineInvariantAfterOps ==
    (op.name = "ops" /\ pc = "ops") => EngineInvariant(puzzle)

\* each row, column and box set is 1..9 without the digits of that group
SetsConsistent(p) ==
    \A i \in Idx :
        /\ p.row_sets[i] = CLASSIC \ SeqSet(iter_row(p.grid, i))
        /\ p.col_sets[i] = CLASSIC \ SeqSet(iter_col(p.grid, i))
        /\ p.box_sets[i] = CLASSIC \ SeqSet(iter_box(p.grid, i))

\* C12: after set and delete calls only (set on a filled cell and set of a
\* digit its row, column or box already holds among them), every row, column
\* and box set is 1..9 without the digits the grid holds in that group.
C12_SetsConsistentAfterSetDelete ==
    (op.name = "ops" /\ pc = "ops" /\ seen \subseteq {"set", "delete"}) =>
        SetsConsistent(puzzle)

\* C13: the engine from_grid builds from a grid g has grid g, each row, column
\* and box set is 1..9 without the digits of that group, and its queue holds
\* exactly the empty cells of g (as many entries as empty cells), each with the
\* intersection of its three sets as priority; for the blank grid it is the
\* engine new builds.
C13_FromGridBuildsTheEngine ==
    (op.name = "ops" /\ outcome = "from_grid") =>
        /\ puzzle.grid = start
        /\ SetsConsistent(puzzle)
        /\ \A ci \in Cells : has_entry(puzzle, ci) <=> ci \in EmptyCellsOf(start)
        /\ pq_len(puzzle.empty_cell_queue) = Cardinality(EmptyCellsOf(start))
        /\ SeqSet(puzzle.empty_cell_queue.heap) = EmptyCellsOf(start)
        /\ \A ci \in EmptyCellsOf(start) :
               puzzle.empty_cell_queue.map[ci + 1].prio =
                   get_element_set(puzzle, get_cell_coords(ci))
        /\ (start = grid_default) =>
               /\ puzzle = puzzle_new
               /\ pq_len(puzzle.empty_cell_queue) = BOARD_SIZE
               /\ \A i \in Idx : puzzle.row_sets[i] = CLASSIC
                                 /\ puzzle.col_sets[i] = CLASSIC
                                 /\ puzzle.box_sets[i] = CLASSIC

\* from_grid has built an engine from a grid with clues, empty cells and a
\* digit given twice in a row
C13_Witness ==
    /\ op.name = "ops"
    /\ outcome = "from_grid"
    /\ EmptyCellsOf(start) # {}
    /\ EmptyCellsOf(start) # Cells
    /\ ~NoRepeat(start)

(***************************************************************************)
(* ArrayPriorityQueue<ElementSet, N> called on its own: insert,            *)
(* insert_unsafe, pop, peek, delete, get_priority                          *)
(***************************************************************************)
\* the capacity of the queue: the const N of its type
N == 5

\* the keys below the capacity that are used: 0..MaxKey
MaxKey == 2

QueueKeys == 0..MaxKey

\* keys that are not below the capacity
OutOfRangeKeys == {N, N + 1}

\* the priorities used: three cardinalities, two sets of one cardinality
Priorities == {{1}, {2}, {1, 2}, {1, 2, 3}}

\* a call that ended in a panic, and one that returned: Option<(usize, P)> or
\* Option<&P> in some, key, prio, and the queue it leaves
Panicked(q) == [panic |-> TRUE, some |-> FALSE, key |-> 0, prio |-> {}, q |-> q]
Done(q, some, key, prio) == [panic |-> FALSE, some |-> some, key |-> key, prio |-> prio, q |-> q]

\* exceeds_capacity that lets the key N pass
exceeds_capacity_off_by_one(required_len) == required_len > N + 1

\* init_map_none cannot reach required_len: the debug_assert fails, and without
\* it ArrayVec::push panics on the full map
exceeds_capacity(required_len) == required_len > N

\* indexing self.map[key] out of bounds
out_of_bounds(q, key) == key >= Len(q.map)

\* insert: the map is grown, then insert_unsafe
insert(q, map_index, new_priority) ==
    IF exceeds_capacity(map_index + 1) THEN Panicked(q)
    ELSE Done(insert_unsafe(init_map_none(q, map_index + 1), map_index, new_priority),
              FALSE, 0, {})

\* insert_unsafe called by a user of the queue
insert_unsafe_call(q, map_index, new_priority) ==
    IF exceeds_capacity(map_index + 1) THEN Panicked(q)
    ELSE Done(insert_unsafe(q, map_index, new_priority), FALSE, 0, {})

\* pop as a call
pop(q) ==
    Val({Done(r.q, r.some, r.key, r.prio) : r \in {pq_pop(q)}})

peek(q) ==
    IF pq_is_empty(q) THEN Done(q, FALSE, 0, {})
    ELSE Done(q, TRUE, q.heap[1], q.map[q.heap[1] + 1].prio)

\* delete after the last heap slot was popped and was not the deleted key: the
\* last key moves to the freed slot and is sifted up or down
delete_moved(q, heap_index, last_map_index) ==
    Val({IF heap_index > 0
            /\ opt_gt(get_priority_heap_index_unsafe(q1, heap_index),
                      get_priority_heap_index_unsafe(q1, get_parent_index(heap_index)))
         THEN heapify_up(q1, heap_index)
         ELSE heapify_down(q1, heap_index) :
            q1 \in {[heap |-> [q.heap EXCEPT ![heap_index + 1] = last_map_index],
                     map |-> [q.map EXCEPT ![last_map_index + 1] =
                                 Entry(heap_index, q.map[last_map_index + 1].prio)]]}})

\* delete without the sift of the key that moved
delete_no_sift(q, map_index) ==
    IF out_of_bounds(q, map_index) THEN Panicked(q)
    ELSE IF ~q.map[map_index + 1].some THEN Done(q, FALSE, 0, {})
    ELSE Val({IF q.heap[Len(q.heap)] # map_index
              THEN Done([heap |-> [taken.heap EXCEPT ![q.map[map_index + 1].slot + 1] =
                                      q.heap[Len(q.heap)]],
                         map |-> [taken.map EXCEPT ![q.heap[Len(q.heap)] + 1] =
                                     Entry(q.map[map_index + 1].slot,
                                           q.map[q.heap[Len(q.heap)] + 1].prio)]],
                        FALSE, 0, {})
              ELSE Done(taken, FALSE, 0, {}) :
                 taken \in {[heap |-> SubSeq(q.heap, 1, Len(q.heap) - 1),
                             map |-> [q.map EXCEPT ![map_index + 1] = NoEntry]]}})

delete(q, map_index) ==
    IF out_of_bounds(q, map_index) THEN Panicked(q)
    ELSE IF ~q.map[map_index + 1].some THEN Done(q, FALSE, 0, {})
    ELSE Val({IF q.heap[Len(q.heap)] # map_index
              THEN Done(delete_moved(taken, q.map[map_index + 1].slot, q.heap[Len(q.heap)]),
                        FALSE, 0, {})
              ELSE Done(taken, FALSE, 0, {}) :
                 taken \in {[heap |-> SubSeq(q.heap, 1, Len(q.heap) - 1),
                             map |-> [q.map EXCEPT ![map_index + 1] = NoEntry]]}})

get_priority(q, key) ==
    IF key < Len(q.map)
    THEN Done(q, get_priority_unsafe(q, key).some, key, get_priority_unsafe(q, key).prio)
    ELSE Done(q, FALSE, 0, {})

InitQueue ==
    \E grown \in BOOLEAN :
        /\ start = grid_default
        /\ puzzle = puzzle_new
        /\ search = NoSearch
        /\ stack = <<>>
        /\ visitor = visitor_new(FALSE, 0)
        /\ ret = TRUE
        /\ pc = "queue"
        /\ op = [name |-> "queue", max_count |-> 0]
        /\ outcome = "none"
        /\ returned = <<>>
        /\ rng = 0
        /\ seen = {}
        /\ unattempted_filled_cell_pairs = <<>>
        /\ current = <<0, None>>
        /\ original_empty_cell_queue = pq_new
        /\ pq = IF grown THEN init_map_none(pq_new, N) ELSE pq_new
        /\ args = <<>>
        /\ result = <<>>

\* a call of the queue has ended with r: result keeps the queue it was called on
QueueCall(name, key, prio, r) ==
    /\ pc = "queue"
    /\ args' = [name |-> name, key |-> key, prio |-> prio]
    /\ result' = [panic |-> r.panic, some |-> r.some, key |-> r.key, prio |-> r.prio,
                  before |-> pq]
    /\ pq' = r.q
    /\ pc' = IF r.panic THEN "panic" ELSE "returned"
    /\ UNCHANGED <<start, puzzle, searchVars, op, outcome, returned, rngVars, minVars>>

\* the caller is done with what the call returned and may call again
QReturned ==
    /\ pc = "returned"
    /\ op.name = "queue"
    /\ pc' = "queue"
    /\ args' = <<>>
    /\ result' = <<>>
    /\ UNCHANGED <<pq, start, puzzle, searchVars, op, outcome, returned, rngVars, minVars>>

QInsert ==
    \E key \in QueueKeys \cup OutOfRangeKeys, prio \in Priorities :
        QueueCall("insert", key, prio, insert(pq, key, prio))

QInsertUnsafe ==
    \E key \in QueueKeys \cup OutOfRangeKeys, prio \in Priorities :
        QueueCall("insert_unsafe", key, prio, insert_unsafe_call(pq, key, prio))

QPop == QueueCall("pop", 0, {}, pop(pq))

QPeek == QueueCall("peek", 0, {}, peek(pq))

QDelete ==
    \E key \in QueueKeys \cup OutOfRangeKeys :
        QueueCall("delete", key, {}, delete(pq, key))

QGetPriority ==
    \E key \in QueueKeys \cup OutOfRangeKeys :
        QueueCall("get_priority", key, {}, get_priority(pq, key))

NextQueue ==
    QInsert \/ QInsertUnsafe \/ QPop \/ QPeek \/ QDelete \/ QGetPriority \/ QReturned

SpecQueue == InitQueue /\ [][NextQueue]_vars

\* the keys q holds and the priority it keeps for a key it holds
present(q) == {k \in 0..(Len(q.map) - 1) : q.map[k + 1].some}
priority_of(q, k) == q.map[k + 1].prio

\* a call of the queue has returned
QueueReturned(names) ==
    op.name = "queue" /\ pc = "returned" /\ args.name \in names

\* what the pops of q return until pop returns None
RECURSIVE drain(_)
drain(q) ==
    IF pq_is_empty(q) THEN <<>>
    ELSE Val({<<<<r.key, r.prio>>>> \o drain(r.q) : r \in {pq_pop(q)}})

\* the pops of q return every key of q once, with its priority, none before a
\* key of greater priority
DrainsInOrder(q) ==
    LET pops == drain(q)
    IN /\ Len(pops) = Cardinality(present(q))
       /\ {pops[i][1] : i \in 1..Len(pops)} = present(q)
       /\ \A i \in 1..Len(pops) : pops[i][2] = priority_of(q, pops[i][1])
       /\ \A i \in 1..Len(pops) : \A j \in i..Len(pops) : es_ge(pops[i][2], pops[j][2])

\* C14: after any calls of insert, pop and delete, pop removes and returns a
\* key whose priority is greater than or equal to that of every key left (an
\* ElementSet of the fewest digits), peek returns the key and priority pop
\* would return and leaves the queue as it is, both return None exactly on the
\* empty queue, and the pops of a queue return each of its keys once in
\* non-increasing order of priority.
C14_PopReturnsAGreatestKey ==
    /\ QueueReturned({"pop"}) =>
          /\ result.some <=> ~pq_is_empty(result.before)
          /\ result.some =>
                /\ result.key \in present(result.before)
                /\ result.prio = priority_of(result.before, result.key)
                /\ present(pq) = present(result.before) \ {result.key}
                /\ \A k \in present(pq) :
                       /\ es_ge(result.prio, priority_of(pq, k))
                       /\ es_len(result.prio) <= es_len(priority_of(pq, k))
                       /\ priority_of(pq, k) = priority_of(result.before, k)
          /\ ~result.some => pq = result.before
    /\ QueueReturned({"peek"}) =>
          /\ pq = result.before
          /\ result.some <=> ~pq_is_empty(pq)
          /\ result.some = pq_pop(pq).some
          /\ result.some => /\ result.key = pq_pop(pq).key
                            /\ result.prio = pq_pop(pq).prio
    /\ (op.name = "queue" /\ pc = "queue") => DrainsInOrder(pq)

\* pop has returned, from a queue of keys of three cardinalities that was
\* changed by insert and by delete, the key of the only smallest set
C14_Witness ==
    /\ QueueReturned({"pop"})
    /\ result.some
    /\ Cardinality(present(pq)) = MaxKey
    /\ Cardinality({es_len(priority_of(result.before, k)) : k \in present(result.before)}) = 3
    /\ \A k \in present(pq) : es_gt(result.prio, priority_of(pq, k))
    /\ result.before.heap[1] # 0

\* C15: after insert (or insert_unsafe) of a key below the capacity with
\* priority p, get_priority of the key returns p itself, also when p has as
\* many digits as the old priority; every other key has the priority it had;
\* len is one more when the key was absent and the same when it was present;
\* and when p compares equal to the old priority the heap is as it was.
C15_InsertSetsThePriority ==
    (QueueReturned({"insert", "insert_unsafe"}) /\ args.key < N) =>
        /\ ~result.panic
        /\ get_priority(pq, args.key).some
        /\ get_priority(pq, args.key).prio = args.prio
        /\ \A k \in (0..(N - 1)) \ {args.key} :
               /\ get_priority(pq, k).some = get_priority(result.before, k).some
               /\ get_priority(pq, k).prio = get_priority(result.before, k).prio
        /\ pq_len(pq) = pq_len(result.before)
                        + (IF args.key \in present(result.before) THEN 0 ELSE 1)
        /\ (args.key \in present(result.before)
            /\ es_cmp(args.prio, priority_of(result.before, args.key)) = "Equal") =>
               /\ pq.heap = result.before.heap
               /\ \A k \in present(pq) : pq.map[k + 1].slot = result.before.map[k + 1].slot

\* insert has replaced the priority of a key, not at the root, by another set
\* of as many digits
C15_Witness ==
    /\ QueueReturned({"insert"})
    /\ args.key \in present(result.before)
    /\ args.prio # priority_of(result.before, args.key)
    /\ es_eq(args.prio, priority_of(result.before, args.key))
    /\ pq.map[args.key + 1].slot > 0
    /\ pq_len(pq) > 2

\* C16: delete of a key the queue holds removes that key and no other: the key
\* has no priority afterwards, len is one less and every other key is held
\* with the priority it had; delete of a key below the capacity that the queue
\* does not hold returns and changes nothing.
C16_DeleteRemovesExactlyTheKey ==
    (op.name = "queue" /\ pc \in {"returned", "panic"}
     /\ args.name = "delete" /\ args.key < N) =>
        /\ ~result.panic
        /\ IF args.key \in present(result.before)
           THEN /\ ~get_priority(pq, args.key).some
                /\ pq_len(pq) = pq_len(result.before) - 1
                /\ present(pq) = present(result.before) \ {args.key}
                /\ \A k \in present(pq) : priority_of(pq, k) = priority_of(result.before, k)
           ELSE pq = result.before

MaxDigit == 4

\* the width of the u16 a BitSet16 wraps
U16_BITS == 16

num_to_bit(num) == num - 1
mask(bit) == 2 ^ bit
\* self.0 & mask(bit)
get_bit(bits, bit) == ((bits \div mask(bit)) % 2) * mask(bit)
bit_is_one(bits, bit) == get_bit(bits, bit) # 0
\* self.0 |= mask(bit)
set_bit(bits, bit) == IF bit_is_one(bits, bit) THEN bits ELSE (bits + mask(bit)) % (2 ^ U16_BITS)
\* self.0 &= !mask(bit)
clear_bit(bits, bit) == IF bit_is_one(bits, bit) THEN bits - mask(bit) ELSE bits
bitset_insert(bits, num) == set_bit(bits, num_to_bit(num))
bitset_remove(bits, num) == clear_bit(bits, num_to_bit(num))

\* u16::count_ones
RECURSIVE count_ones(_)
count_ones(bits) == IF bits = 0 THEN 0 ELSE (bits % 2) + count_ones(bits \div 2)

\* BitSet16::len
bitset_len(bits) == count_ones(bits)

\* ElementSet::CLASSIC = 0b1_1111_1111
CLASSIC_BITS == 511

\* PartialEq::eq
element_set_eq(a, b) == bitset_len(a) = bitset_len(b)

\* u8::cmp
u8_cmp(x, y) == IF x < y THEN "Less" ELSE IF x > y THEN "Greater" ELSE "Equal"

\* Ord::cmp with the two lengths compared the other way round
element_set_cmp_ascending(a, b) == u8_cmp(bitset_len(a), bitset_len(b))

\* Ord::cmp: other.0.len().cmp(&self.0.len())
element_set_cmp(a, b) == u8_cmp(bitset_len(b), bitset_len(a))

\* a > b, a >= b by PartialOrd::partial_cmp
element_set_gt(a, b) == element_set_cmp(a, b) = "Greater"
element_set_ge(a, b) == element_set_cmp(a, b) # "Less"

InitElementSet ==
    \E a \in {0, CLASSIC_BITS}, b \in {0, CLASSIC_BITS} :
        /\ start = grid_default
        /\ puzzle = puzzle_new
        /\ search = NoSearch
        /\ stack = <<>>
        /\ visitor = visitor_new(FALSE, 0)
        /\ ret = TRUE
        /\ pc = "sets"
        /\ op = [name |-> "element_set", max_count |-> 0]
        /\ outcome = "none"
        /\ returned = <<>>
        /\ rng = 0
        /\ seen = {}
        /\ unattempted_filled_cell_pairs = <<>>
        /\ current = <<0, None>>
        /\ original_empty_cell_queue = pq_new
        /\ pq = pq_new
        /\ args = [a |-> a, b |-> b]
        /\ result = <<>>

\* what the calls on the two sets leave alone
SetFrame ==
    UNCHANGED <<start, puzzle, searchVars, op, outcome, returned, rngVars, minVars, pq>>

\* a.insert(num) or b.insert(num)
EsInsert ==
    /\ op.name = "element_set"
    /\ \E num \in 1..MaxDigit :
        \/ args' = [args EXCEPT !.a = bitset_insert(@, num)]
        \/ args' = [args EXCEPT !.b = bitset_insert(@, num)]
    /\ result' = <<>>
    /\ pc' = "sets"
    /\ SetFrame

\* a.remove(num) or b.remove(num)
EsRemove ==
    /\ op.name = "element_set"
    /\ \E num \in 1..MaxDigit :
        \/ args' = [args EXCEPT !.a = bitset_remove(@, num)]
        \/ args' = [args EXCEPT !.b = bitset_remove(@, num)]
    /\ result' = <<>>
    /\ pc' = "sets"
    /\ SetFrame

\* a == b, a.cmp(&b), a > b are evaluated
EsCompare ==
    /\ op.name = "element_set"
    /\ pc = "sets"
    /\ result' = [eq |-> element_set_eq(args.a, args.b),
                  cmp |-> element_set_cmp(args.a, args.b),
                  gt |-> element_set_gt(args.a, args.b)]
    /\ pc' = "compared"
    /\ UNCHANGED args
    /\ SetFrame

NextElementSet == EsInsert \/ EsRemove \/ EsCompare

SpecElementSet == InitElementSet /\ [][NextElementSet]_vars

\* the digits a BitSet16 holds
members(bits) == {num \in 1..U16_BITS : (bits \div (2 ^ (num - 1))) % 2 = 1}

\* the sets insert and remove reach
ReachableSets ==
    {bits \in 0..CLASSIC_BITS :
        members(bits) \ (1..MaxDigit) \in {{}, (MaxDigit + 1)..9}}

\* C18: for ElementSets a and b of digits 1..9, a == b exactly when they have
\* as many members, a > b exactly when a has fewer members than b; the
\* comparison is reflexive, total and transitive, and gives the same answer
\* for any two sets of the same number of members.
C18_ComparedByCardinalityOnly ==
    (op.name = "element_set" /\ pc = "compared") =>
        LET a == args.a
            b == args.b
        IN /\ result.eq <=> Cardinality(members(a)) = Cardinality(members(b))
           /\ result.gt <=> Cardinality(members(a)) < Cardinality(members(b))
           /\ (result.cmp = "Greater") <=> Cardinality(members(a)) < Cardinality(members(b))
           /\ (result.cmp = "Equal") <=> result.eq
           /\ element_set_ge(a, a)
           /\ element_set_ge(a, b) \/ element_set_ge(b, a)
           /\ \A c \in ReachableSets :
                  /\ (element_set_ge(a, b) /\ element_set_ge(b, c)) => element_set_ge(a, c)
                  /\ Cardinality(members(c)) = Cardinality(members(a)) =>
                         /\ element_set_cmp(c, b) = result.cmp
                         /\ element_set_eq(c, b) = result.eq

\* two sets of different digits and as many of them were compared, and two of
\* which the one of fewer digits is the greater
C18_Witness ==
    /\ op.name = "element_set"
    /\ pc = "compared"
    /\ members(args.a) # members(args.b)
    /\ members(args.a) \cap members(args.b) = {}
    /\ Cardinality(members(args.a)) = 2
    /\ result.eq
    /\ ~result.gt

(***************************************************************************)
(* The enumerations on grids that have no valid completion: a clue that    *)
(* leaves none, or a digit given twice in a row                            *)
(***************************************************************************)
\* g with the digit of its first clue given again in the next cell of the row
GivenTwice(g) ==
    LET filled == Cells \ EmptyCellsOf(g)
        first == CHOOSE x \in filled : \A y \in filled : x <= y
        to == IF first % 9 < 8 THEN (first % 9) + 1 ELSE (first % 9) - 1
    IN IF filled = {} THEN g
       ELSE grid_set(g, first \div 9, to, g[first \div 9][first % 9])

InitNoCompletion ==
    \E b \in 1..Len(BaseGrids), ds \in ClearDigitSets, clear_rows \in 0..SIDE,
       wrong \in 0..MaxWrong, max_count \in 0..MaxBound,
       name \in {"find_solutions", "find_solutions_bounded", "is_well_posed"} :
        /\ (name # "find_solutions_bounded") => max_count = 0
        /\ (EmptyCellsOf(BaseGrids[b]) # {}) => (ds = {} /\ clear_rows = 0)
        /\ start = IF wrong = 0
                   THEN GivenTwice(StartGrid(BaseGrids[b], ds, clear_rows, 0))
                   ELSE StartGrid(BaseGrids[b], ds, clear_rows, wrong)
        /\ puzzle = from_grid(start)
        /\ search = NoSearch
        /\ stack = <<>>
        /\ visitor = visitor_new(FALSE, 0)
        /\ ret = TRUE
        /\ pc = "idle"
        /\ op = [name |-> name, max_count |-> max_count]
        /\ outcome = "none"
        /\ returned = <<>>
        /\ rng = 0
        /\ seen = {}
        /\ unattempted_filled_cell_pairs = <<>>
        /\ current = <<0, None>>
        /\ original_empty_cell_queue = pq_new
        /\ pq = pq_new
        /\ args = <<>>
        /\ result = <<>>

SpecNoCompletion == InitNoCompletion /\ [][NextVisit]_vars

\* the grid has no valid completion: a digit is given twice in a row, column
\* or box, or no way of filling the empty cells gives a solved grid
HasNoCompletion(g) == ~NoRepeat(g) \/ CompletionsUpTo(g, 1) = 0

\* C19: on a grid that has no valid completion, a digit given twice in a row,
\* column or box included, find_solutions and count_solutions return no
\* result with either engine, and the visitor is never called.
C19_NoCompletionNoResult ==
    (FindDone /\ HasNoCompletion(start)) =>
        \A k \in 1..2 :
            /\ returned[k].visitor.count = 0
            /\ returned[k].visitor.sols = <<>>

(***************************************************************************)
(* ClassicGrid::from(&str) (grids/classic.rs, puzzles/classic/grid.rs):    *)
(* the text is a sequence of characters, read one character a step; a      *)
(* cell of the grid read is <<>> for None and <<n>> for Some(n)            *)
(***************************************************************************)
\* the number of lines of the texts parsed that come before the last line
MaxLines == 9

\* char::to_digit(10) of the ASCII digits
to_digit ==
    [c \in {"0", "1", "2", "3", "4", "5", "6", "7", "8", "9"} |->
        CASE c = "0" -> 0 [] c = "1" -> 1 [] c = "2" -> 2 [] c = "3" -> 3 [] c = "4" -> 4
          [] c = "5" -> 5 [] c = "6" -> 6 [] c = "7" -> 7 [] c = "8" -> 8 [] c = "9" -> 9]

is_ascii_digit(c) == c \in DOMAIN to_digit

\* the lines the texts are made of: an empty line, a separator, a row as
\* Display writes it, a row with letters, nine digits, ten digits, ten dots,
\* a row with a 0
TextLines ==
    << <<>>,
       <<"-", "-", "|", "-", "5">>,
       <<"5", " ", "3", " ", ".", " ", "|", " ", ".", " ", "7", " ", ".", " ", "|",
         " ", ".", " ", ".", " ", "9">>,
       <<"x", "4", "y", ".", "-", "2">>,
       <<"1", "2", "3", "4", "5", "6", "7", "8", "9">>,
       <<"1", "2", "3", "4", "5", "6", "7", "8", "9", "1">>,
       <<".", ".", ".", ".", ".", ".", ".", ".", ".", ".">>,
       <<"1", "0", "2">> >>

\* the text of k lines a, each ended by a newline, and a last line b
Text(k, a, b) ==
    [i \in 1..(k * (Len(a) + 1) + Len(b)) |->
        IF i > k * (Len(a) + 1) THEN b[i - k * (Len(a) + 1)]
        ELSE IF (i - 1) % (Len(a) + 1) = Len(a) THEN "\n"
        ELSE a[((i - 1) % (Len(a) + 1)) + 1]]

\* ClassicGrid::default() as the parser fills it
parsed_default == [r \in Idx |-> [c \in Idx |-> <<>>]]

\* the parser before the first character: row and col are the counters of
\* the two enumerate(), line_start and separator say whether the line has
\* begun and whether filter(|l| !l.starts_with('-')) drops it
parse_start ==
    [grid |-> parsed_default, i |-> 1, row |-> 0, col |-> 0,
     line_start |-> TRUE, separator |-> FALSE, panic |-> FALSE]

\* one character of the text: the end of a line, the first character of a
\* separator, a character of a dropped line, a digit or dot, any other
\* character; grid.0[row][col] panics when row or col is not below 9
parse_char(st, c) ==
    IF c = "\n"
    THEN [st EXCEPT !.i = @ + 1, !.row = IF st.separator THEN @ ELSE @ + 1, !.col = 0,
                    !.line_start = TRUE, !.separator = FALSE]
    ELSE IF st.line_start /\ c = "-"
    THEN [st EXCEPT !.i = @ + 1, !.line_start = FALSE, !.separator = TRUE]
    ELSE IF st.separator
    THEN [st EXCEPT !.i = @ + 1]
    ELSE IF is_ascii_digit(c)
    THEN IF st.row >= SIDE \/ st.col >= SIDE
         THEN [st EXCEPT !.panic = TRUE]
         ELSE [st EXCEPT !.i = @ + 1, !.line_start = FALSE, !.col = @ + 1,
                         !.grid[st.row][st.col] = <<to_digit[c]>>]
    ELSE IF c = "."
    THEN [st EXCEPT !.i = @ + 1, !.line_start = FALSE, !.col = @ + 1]
    ELSE [st EXCEPT !.i = @ + 1, !.line_start = FALSE]

InitParse ==
    \E k \in 0..MaxLines, a \in 1..Len(TextLines), b \in 1..Len(TextLines) :
        /\ start = grid_default
        /\ puzzle = puzzle_new
        /\ search = NoSearch
        /\ stack = <<>>
        /\ visitor = visitor_new(FALSE, 0)
        /\ ret = TRUE
        /\ pc = "parse"
        /\ op = [name |-> "parse", max_count |-> 0]
        /\ outcome = "none"
        /\ returned = <<>>
        /\ rng = 0
        /\ seen = {}
        /\ unattempted_filled_cell_pairs = <<>>
        /\ current = <<0, None>>
        /\ original_empty_cell_queue = pq_new
        /\ pq = pq_new
        /\ args = [s |-> Text(k, TextLines[a], TextLines[b])]
        /\ result = parse_start

ParseFrame ==
    UNCHANGED <<start, puzzle, searchVars, op, outcome, returned, rngVars, minVars, pq, args>>

\* the loops of from(s) take the next character
ParseChar ==
    /\ pc = "parse"
    /\ result.i <= Len(args.s)
    /\ \E st \in {parse_char(result, args.s[result.i])} :
        /\ result' = st
        /\ pc' = IF st.panic THEN "panic" ELSE "parse"
    /\ ParseFrame

\* the text is read: from(s) returns the grid
ParseReturned ==
    /\ pc = "parse"
    /\ result.i > Len(args.s)
    /\ pc' = "parsed"
    /\ UNCHANGED result
    /\ ParseFrame

NextParse == ParseChar \/ ParseReturned

SpecParse == InitParse /\ [][NextParse]_vars

\* C20: parsing a text grid fails on no input: a character that is neither a
\* digit 1..9 nor a dot is skipped, no text (with a 0, with a line of more
\* than nine digits and dots, with more than nine lines that are no
\* separators) ends in a panic or puts a value outside 1..9 into a cell.
C20_ParsingNeverFails ==
    (op.name = "parse") =>
        /\ pc # "panic"
        /\ pc = "parsed" =>
               \A r \in Idx, c \in Idx :
                   result.grid[r][c] = <<>> \/ result.grid[r][c][1] \in Digits

(***************************************************************************)
(* Display and From<&str> of ClassicGrid (grids/classic.rs): a grid is     *)
(* built from an array of u8, written as text, the text is parsed and the  *)
(* parsed grid is written again                                            *)
(***************************************************************************)
\* the u8 put into a changed cell: a blank, digits, the least and the
\* greatest u8 that are no digits
U8Values == {0, 1, 9, 10, 255}

\* [[u8; 9]; 9] of a test grid, the cell (row, col) replaced by num
ArrayOf(g, row, col, num) ==
    [r \in 1..SIDE |-> [c \in 1..SIDE |->
        IF r = row + 1 /\ c = col + 1 THEN num ELSE g[r - 1][c - 1]]]

\* Option<u8> of a cell of an engine grid
some(val) == IF val = None THEN <<>> ELSE <<val>>

\* std::char::from_digit(n, 10): None when n is no digit of radix 10
from_digit(n) ==
    IF n < 10 THEN <<(<<"0", "1", "2", "3", "4", "5", "6", "7", "8", "9">>)[n + 1]>> ELSE <<>>

\* the row separator written after the rows 2 and 5
ROW_SEPARATOR ==
    <<"-", "-", "-", "-", "-", "-", "|", "-", "-", "-", "-", "-", "-", "-", "|",
      "-", "-", "-", "-", "-", "-", "\n">>

\* fmt with the cell not followed by anything
fmt_cell_bare(cell, row_index, col_index) ==
    IF cell = <<>> THEN [panic |-> FALSE, text |-> <<".">>]
    ELSE IF from_digit(cell[1]) = <<>> THEN [panic |-> TRUE, text |-> <<>>]
    ELSE [panic |-> FALSE, text |-> from_digit(cell[1])]

\* fmt for one cell: the character of the cell, what follows it, and the
\* separator after the last cell of the rows 2 and 5; from_digit(..).unwrap()
\* panics on a value that is no digit
fmt_cell(cell, row_index, col_index) ==
    LET follows == IF col_index = 8 THEN <<"\n">>
                   ELSE IF col_index \in {2, 5} THEN <<" ", "|", " ">>
                   ELSE <<" ">>
        separator == IF col_index = 8 /\ row_index \in {2, 5} THEN ROW_SEPARATOR ELSE <<>>
    IN IF cell = <<>> THEN [panic |-> FALSE, text |-> <<".">> \o follows \o separator]
       ELSE IF from_digit(cell[1]) = <<>> THEN [panic |-> TRUE, text |-> <<>>]
       ELSE [panic |-> FALSE, text |-> from_digit(cell[1]) \o follows \o separator]

\* the cells of the test grids that are given another u8
ChangedCells == {0, 40, 80}

InitFormat ==
    \E b \in 1..Len(BaseGrids), ci \in ChangedCells, num \in U8Values :
        /\ args = [nums |-> ArrayOf(BaseGrids[b], ci \div 9, ci % 9, num)]
        /\ start = grid_from_array(args.nums)
        /\ puzzle = puzzle_new
        /\ search = NoSearch
        /\ stack = <<>>
        /\ visitor = visitor_new(FALSE, 0)
        /\ ret = TRUE
        /\ pc = "format"
        /\ op = [name |-> "format", max_count |-> 0]
        /\ outcome = "none"
        /\ returned = <<>>
        /\ rng = 0
        /\ seen = {}
        /\ unattempted_filled_cell_pairs = <<>>
        /\ current = <<0, None>>
        /\ original_empty_cell_queue = pq_new
        /\ pq = pq_new
        /\ result = [text |-> <<>>, cell |-> 0, st |-> parse_start, again |-> <<>>]

FormatFrame ==
    UNCHANGED <<start, puzzle, searchVars, op, outcome, returned, rngVars, minVars, pq, args>>

\* grid.to_string(): the loops of fmt write the next cell of the grid built
\* from the array
FormatCell ==
    /\ pc = "format"
    /\ result.cell < BOARD_SIZE
    /\ \E w \in {fmt_cell(some(start[result.cell \div 9][result.cell % 9]),
                          result.cell \div 9, result.cell % 9)} :
        /\ result' = [result EXCEPT !.text = @ \o w.text, !.cell = @ + 1]
        /\ pc' = IF w.panic THEN "panic" ELSE "format"
    /\ FormatFrame

\* to_string() returns the text, ClassicGrid::from(text) begins
FormatReturned ==
    /\ pc = "format"
    /\ result.cell = BOARD_SIZE
    /\ pc' = "parse_back"
    /\ UNCHANGED result
    /\ FormatFrame

\* the loops of from(text) take the next character
ParseBackChar ==
    /\ pc = "parse_back"
    /\ result.st.i <= Len(result.text)
    /\ \E st \in {parse_char(result.st, result.text[result.st.i])} :
        /\ result' = [result EXCEPT !.st = st]
        /\ pc' = IF st.panic THEN "panic" ELSE "parse_back"
    /\ FormatFrame

\* from(text) returns the parsed grid, its to_string() begins
ParseBackReturned ==
    /\ pc = "parse_back"
    /\ result.st.i > Len(result.text)
    /\ pc' = "format_again"
    /\ result' = [result EXCEPT !.cell = 0]
    /\ FormatFrame

\* the loops of fmt write the next cell of the parsed grid
FormatAgainCell ==
    /\ pc = "format_again"
    /\ result.cell < BOARD_SIZE
    /\ \E w \in {fmt_cell(result.st.grid[result.cell \div 9][result.cell % 9],
                          result.cell \div 9, result.cell % 9)} :
        /\ result' = [result EXCEPT !.again = @ \o w.text, !.cell = @ + 1]
        /\ pc' = IF w.panic THEN "panic" ELSE "format_again"
    /\ FormatFrame

FormatAgainReturned ==
    /\ pc = "format_again"
    /\ result.cell = BOARD_SIZE
    /\ pc' = "formatted"
    /\ UNCHANGED result
    /\ FormatFrame

NextFormat ==
    \/ FormatCell \/ FormatReturned \/ ParseBackChar \/ ParseBackReturned
    \/ FormatAgainCell \/ FormatAgainReturned

SpecFormat == InitFormat /\ [][NextFormat]_vars

\* the k-th line of a text whose lines have 21 characters and a newline
TextLine(text, k) == SubSeq(text, 22 * (k - 1) + 1, 22 * k)

\* 9 lines of cells with " | " after the columns 3 and 6 and a separator
\* line after the rows 3 and 6
WellFormatted(text) ==
    /\ Len(text) = 22 * 11
    /\ \A k \in 1..11 :
        IF k \in {4, 8} THEN TextLine(text, k) = ROW_SEPARATOR
        ELSE /\ \A j \in {1, 3, 5, 9, 11, 13, 17, 19, 21} :
                    TextLine(text, k)[j] = "." \/ is_ascii_digit(TextLine(text, k)[j])
             /\ \A j \in {2, 4, 6, 8, 10, 12, 14, 16, 18, 20} : TextLine(text, k)[j] = " "
             /\ \A j \in {7, 15} : TextLine(text, k)[j] = "|"
             /\ TextLine(text, k)[22] = "\n"

\* the parsed grid is the grid built from the array
ParsedIsStart ==
    \A r \in Idx, c \in Idx : result.st.grid[r][c] = some(start[r][c])

RoundTrip ==
    /\ pc # "panic"
    /\ pc \in {"parse_back", "format_again", "formatted"} => WellFormatted(result.text)
    /\ pc \in {"format_again", "formatted"} => ParsedIsStart
    /\ pc = "formatted" => result.again = result.text

\* C21 as claimed: for every grid built from an array of u8, zeros mapped to
\* blanks, to_string and parsing back give the same grid, and formatting the
\* parsed grid reproduces the text (9 lines of cells, " | " after the columns
\* 3 and 6, a separator line after the rows 3 and 6).
C21_RoundTripOfAnyArray == (op.name = "format") => RoundTrip

\* C21 amended: the same for every array whose entries are 0..9; an entry
\* above 9 makes to_string panic.
C21_RoundTripOfDigitArrays ==
    (op.name = "format" /\ \A r \in 1..SIDE, c \in 1..SIDE : args.nums[r][c] <= 9) => RoundTrip

C21_Witness ==
    /\ op.name = "format" /\ pc = "formatted"
    /\ \E r \in 1..SIDE, c \in 1..SIDE : args.nums[r][c] = 0
    /\ \E r \in 1..SIDE, c \in 1..SIDE : args.nums[r][c] = 9

(***************************************************************************)
(* ClassicGrid::neighbor_positions (puzzles/classic/grid.rs)               *)
(***************************************************************************)
NUM_COLS == 9
NUM_ROWS == 9
BOX_SIZE == 3
CLASSIC_NEIGHBOR_CAPACITY == 20

\* ArrayVec::push: panics when the vector is at its capacity
neighbors_push(acc, coord) ==
    IF Len(acc.neighbors) >= CLASSIC_NEIGHBOR_CAPACITY THEN [acc EXCEPT !.panic = TRUE]
    ELSE [acc EXCEPT !.neighbors = Append(@, coord)]

\* the box loop skipping only the cells of the row
in_row_or_col_row_only(row, col, r, c) == r = row

\* if r == row || c == col { continue; }
in_row_or_col(row, col, r, c) == r = row \/ c = col

\* the three loops, one iteration each: i counts the iterations of a loop
row_loop(acc, row, col) ==
    [(IF acc.i # col THEN neighbors_push(acc, <<row, acc.i>>) ELSE acc) EXCEPT !.i = acc.i + 1]

col_loop(acc, row, col) ==
    [(IF acc.i # row THEN neighbors_push(acc, <<acc.i, col>>) ELSE acc) EXCEPT !.i = acc.i + 1]

box_loop(acc, row, col) ==
    LET r == (row \div BOX_SIZE) * BOX_SIZE + (acc.i \div BOX_SIZE)
        c == (col \div BOX_SIZE) * BOX_SIZE + (acc.i % BOX_SIZE)
    IN [(IF in_row_or_col(row, col, r, c) THEN acc ELSE neighbors_push(acc, <<r, c>>))
        EXCEPT !.i = acc.i + 1]

InitNeighbors ==
    \E row \in 0..(NUM_ROWS - 1), col \in 0..(NUM_COLS - 1) :
        /\ args = [row |-> row, col |-> col]
        /\ result = [neighbors |-> <<>>, i |-> 0, panic |-> FALSE]
        /\ pc = "row_loop"
        /\ op = [name |-> "neighbor_positions", max_count |-> 0]
        /\ start = grid_default
        /\ puzzle = puzzle_new
        /\ search = NoSearch
        /\ stack = <<>>
        /\ visitor = visitor_new(FALSE, 0)
        /\ ret = TRUE
        /\ outcome = "none"
        /\ returned = <<>>
        /\ rng = 0
        /\ seen = {}
        /\ unattempted_filled_cell_pairs = <<>>
        /\ current = <<0, None>>
        /\ original_empty_cell_queue = pq_new
        /\ pq = pq_new

\* an iteration of the loop named by pc, or the step to the loop after it
NeighborsLoop(loop, bound, next, iterated) ==
    /\ pc = loop
    /\ \E acc \in {IF result.i < bound THEN iterated ELSE [result EXCEPT !.i = 0]} :
        /\ result' = acc
        /\ pc' = IF acc.panic THEN "panic" ELSE IF result.i < bound THEN loop ELSE next
    /\ UNCHANGED <<start, puzzle, searchVars, op, outcome, returned, rngVars, minVars, pq, args>>

NeighborsRowLoop ==
    NeighborsLoop("row_loop", NUM_COLS, "col_loop", row_loop(result, args.row, args.col))

NeighborsColLoop ==
    NeighborsLoop("col_loop", NUM_ROWS, "box_loop", col_loop(result, args.row, args.col))

\* after the box loop neighbors.into_iter() is returned
NeighborsBoxLoop ==
    NeighborsLoop("box_loop", BOX_SIZE * BOX_SIZE, "neighbors",
                  box_loop(result, args.row, args.col))

NextNeighbors == NeighborsRowLoop \/ NeighborsColLoop \/ NeighborsBoxLoop

SpecNeighbors == InitNeighbors /\ [][NextNeighbors]_vars

\* the cells other than (row, col) that share its row, its column or its box
SharingAGroup(row, col) ==
    {rc \in Idx \X Idx :
        /\ rc # <<row, col>>
        /\ \/ rc[1] = row
           \/ rc[2] = col
           \/ (rc[1] \div 3 = row \div 3 /\ rc[2] \div 3 = col \div 3)}

\* C22: for each of the 81 cells neighbor_positions yields exactly 20
\* pairwise distinct coordinates, none the cell itself: exactly the cells
\* sharing its row, column or box (and it never overflows its vector).
C22_TwentyDistinctNeighbors ==
    (op.name = "neighbor_positions") =>
        /\ pc # "panic"
        /\ pc = "neighbors" =>
            /\ Len(result.neighbors) = 20
            /\ \A i, j \in 1..Len(result.neighbors) :
                   i # j => result.neighbors[i] # result.neighbors[j]
            /\ <<args.row, args.col>> \notin SeqSet(result.neighbors)
            /\ SeqSet(result.neighbors) = SharingAGroup(args.row, args.col)

C22_Witness ==
    /\ op.name = "neighbor_positions" /\ pc = "neighbors"
    /\ args.row = 8 /\ args.col = 3 /\ Len(result.neighbors) = 20

(***************************************************************************)
(* ClassicPuzzle::num_clues                                                *)
(***************************************************************************)
\* (0..row).fold(0, |acc: u8, row| acc + (9 - self.row_sets[row].len()))
RECURSIVE num_clues_fold(_, _)
num_clues_fold(p, row) ==
    IF row = 0 THEN 0
    ELSE (num_clues_fold(p, row - 1) + (9 - es_len(p.row_sets[row - 1]))) % 256

num_clues(p) == num_clues_fold(p, 9)

\* C23: in every engine state reached through new, from_grid of an arbitrary
\* grid, set, delete and remove_n_random_filled_cells, num_clues() is the
\* number of filled cells of the grid.
C23_NumCluesCountsFilledCells ==
    (op.name = "ops" /\ pc = "ops") =>
        num_clues(puzzle) = Cardinality(FilledCellsOf(puzzle.grid))

(***************************************************************************)
(* fill_from_rng on an engine that is not blank                            *)
(***************************************************************************)
\* the engines fill_from_rng is called on: new() followed by one set, and
\* from_grid of the test grids
FilledEngines ==
    {puzzle_set(puzzle_new, get_cell_coords(ci), 1) : ci \in {0, 40}}
    \cup {from_grid(BaseGrids[b]) : b \in 1..Len(BaseGrids)}

InitFillFilled ==
    \E seed \in 1..NumShuffles, p \in FilledEngines :
        /\ start = p.grid
        /\ puzzle = p
        /\ search = NoSearch
        /\ stack = <<>>
        /\ visitor = visitor_new(FALSE, 0)
        /\ ret = TRUE
        /\ pc = "fill_call"
        /\ op = [name |-> "fill_from_rng", max_count |-> 0]
        /\ outcome = "none"
        /\ returned = <<>>
        /\ rng = seed
        /\ seen = {}
        /\ unattempted_filled_cell_pairs = <<>>
        /\ current = <<0, None>>
        /\ original_empty_cell_queue = pq_new
        /\ pq = pq_new
        /\ args = <<>>
        /\ result = <<>>

SpecFillFilled == InitFillFilled /\ [][NextFill]_vars

\* C24: fill_from_rng called on an engine with a filled cell never returns
\* normally with a grid (the violated precondition is fatal).
C24_FillOfFilledEngineIsFatal ==
    (op.name = "fill_from_rng" /\ FilledCellsOf(start) # {}) => pc # "done"

(***************************************************************************)
(* count_solutions_recursive and count_solutions_iterative on a minimal    *)
(* puzzle that lost one clue by remove_n_random_filled_cells(rng, 1)       *)
(***************************************************************************)
\* the minimal puzzles remove_n_random_filled_cells is called on
MinimalGrids == <<SEED_PUZZLE_MINIMUM>>

\* the closure of count_solutions_*: count += 1; true
count_closure == visitor_new(FALSE, 0)

InitIllPosed ==
    \E b \in 1..Len(MinimalGrids) :
    \E x \in 0..(Cardinality(FilledCellsOf(MinimalGrids[b])) - 1) :
        /\ start = MinimalGrids[b]
        /\ puzzle = from_grid(start)
        /\ search = NoSearch
        /\ stack = <<>>
        /\ visitor = visitor_new(FALSE, 0)
        /\ ret = TRUE
        /\ pc = "built"
        /\ op = [name |-> "count_solutions", max_count |-> 0]
        /\ outcome = "none"
        /\ returned = <<>>
        /\ rng = x
        /\ seen = {}
        /\ unattempted_filled_cell_pairs = <<>>
        /\ current = <<0, None>>
        /\ original_empty_cell_queue = pq_new
        /\ pq = pq_new
        /\ args = <<>>
        /\ result = <<>>

\* puzzle.remove_n_random_filled_cells(&mut rng, 1)
RemoveOne ==
    /\ pc = "built"
    /\ \E r \in {remove_n_random_filled_cells(puzzle, rng, 1)} :
        /\ puzzle' = r.puzzle
        /\ rng' = r.rng
        /\ pc' = IF r.panic THEN "panic" ELSE "idle"
    /\ UNCHANGED <<searchVars, callVars, seen, minVars>>

\* count_solutions_recursive(puzzle) up to the call of dfs
CountRecursive ==
    /\ pc = "idle"
    /\ op.name = "count_solutions"
    /\ returned = <<>>
    /\ search' = puzzle
    /\ stack' = <<>>
    /\ visitor' = count_closure
    /\ pc' = "dfs_call"
    /\ UNCHANGED <<start, puzzle, ret, opVars, outcome, returned, rngVars, minVars>>

\* the search has returned: count_solutions_recursive returns count
CountRecursiveReturned ==
    /\ pc = "dfs_return"
    /\ stack = <<>>
    /\ op.name = "count_solutions"
    /\ returned' = Append(returned, visitor.count)
    /\ pc' = "idle"
    /\ UNCHANGED <<start, puzzle, searchVars, opVars, outcome, rngVars, minVars>>

\* count_solutions_iterative(puzzle) up to visit_solutions_iterative
CountIterative ==
    /\ pc = "idle"
    /\ op.name = "count_solutions"
    /\ Len(returned) = 1
    /\ search' = puzzle
    /\ stack' = <<>>
    /\ visitor' = count_closure
    /\ pc' = "it_call"
    /\ UNCHANGED <<start, puzzle, ret, opVars, outcome, returned, rngVars, minVars>>

\* visit_solutions_iterative has returned: count_solutions_iterative returns count
CountIterativeReturned ==
    /\ pc = "it_return"
    /\ op.name = "count_solutions"
    /\ returned' = Append(returned, visitor.count)
    /\ pc' = "done"
    /\ UNCHANGED <<start, puzzle, searchVars, opVars, outcome, rngVars, minVars>>

NextIllPosed ==
    \/ RemoveOne
    \/ CountRecursive \/ DfsEnter \/ DfsIteration \/ DfsReturn \/ CountRecursiveReturned
    \/ CountIterative \/ IterativeStart \/ IterativeStep \/ CountIterativeReturned

SpecIllPosed == InitIllPosed /\ [][NextIllPosed]_vars

\* the puzzle is well-posed and loses uniqueness with each of its clues
Irreducible(g) ==
    /\ CompletionsUpTo(g, 2) = 1
    /\ \A ci \in FilledCellsOf(g) : CompletionsUpTo(grid_set(g, ci \div 9, ci % 9, None), 2) = 2

\* C25: a well-posed puzzle built by from_grid that loses uniqueness with
\* each clue, after remove_n_random_filled_cells(rng, 1): whichever clue is
\* picked, count_solutions_recursive and count_solutions_iterative each
\* return more than 1.
C25_OneClueLessHasMoreSolutions ==
    (op.name = "count_solutions") =>
        /\ pc # "panic"
        /\ \A k \in 1..Len(returned) : returned[k] > 1 \/ ~Irreducible(start)

(***************************************************************************)
(* The backtrack branch of fill_from_rng                                   *)
(***************************************************************************)
\* the main loop is about to pop a cell that has no untried candidate
PopsExhaustedCell ==
    /\ pc = "fill_loop"
    /\ pq_pop(puzzle.empty_cell_queue).some
    /\ pq_pop(puzzle.empty_cell_queue).prio = {}

\* C26: in fill_from_rng on a blank engine, whenever the cell popped has no
\* untried candidate left there is a frame on the stack (stack.pop().unwrap()
\* does not panic), and no run ends in a panic: dead ends are resolved inside
\* fill_from_rng.
C26_BacktrackFindsAFrame ==
    (op.name = "fill_from_rng" /\ start = grid_default) =>
        /\ PopsExhaustedCell => stack # <<>>
        /\ pc # "panic"

C26_Witness ==
    /\ op.name = "fill_from_rng" /\ start = grid_default
    /\ PopsExhaustedCell
    /\ "dead_end" \in seen
    /\ Len(stack) > 1

(***************************************************************************)
(* propagate_choice as its callers call it: the MRV cell is popped, one of *)
(* its candidates is set and propagated; the undo list is replayed         *)
(***************************************************************************)
\* the number of cells placed in a run
MaxPlaced == 3

\* SEED_PUZZLE_SOLUTION with the cells (0,0), (0,1), (3,0) and (5,1) cleared and
\* a 4 in (3,3): the cells (0,0), (3,0) and (5,1) have the one candidate 5 and
\* (0,1) has 5 and 6
ClashGrid ==
    [SEED_PUZZLE_SOLUTION EXCEPT ![0][0] = None, ![0][1] = None, ![3][0] = None,
                                 ![5][1] = None, ![3][3] = 4]

\* the grids the engines are built from
\* the digits 1..6 in row 0 right of its first box and a 9 in (4,3): the cells
\* (0,0), (0,1) and (0,2) have the candidates 7, 8 and 9, every other cell has
\* more, and the 9 is held by one neighbour less than the 7 and the 8
LcvGrid ==
    [grid_default EXCEPT ![0][3] = 1, ![0][4] = 2, ![0][5] = 3, ![0][6] = 4,
                         ![0][7] = 5, ![0][8] = 6, ![4][3] = 9]

PropagateGrids ==
    {grid_default, SEED_PUZZLE_MINIMUM, ClashGrid, LcvGrid,
     [ClashGrid EXCEPT ![3][0] = 4, ![3][3] = 5, ![1][0] = None, ![1][4] = 3]}
    \cup {StartGrid(BaseGrids[b], ds, clear_rows, wrong) :
             b \in 1..2, ds \in ClearDigitSets \ {{}}, clear_rows \in {3, 9},
             wrong \in 0..MaxWrong}

InitPropagate ==
    \E g \in PropagateGrids :
        /\ start = g
        /\ puzzle = from_grid(g)
        /\ search = NoSearch
        /\ stack = <<>>
        /\ visitor = visitor_new(FALSE, 0)
        /\ ret = TRUE
        /\ pc = "place"
        /\ op = [name |-> "propagate_choice", max_count |-> 0]
        /\ outcome = "none"
        /\ returned = <<>>
        /\ rng = 0
        /\ seen = {}
        /\ unattempted_filled_cell_pairs = <<>>
        /\ current = <<0, None>>
        /\ original_empty_cell_queue = pq_new
        /\ pq = pq_new
        /\ args = <<>>
        /\ result = <<>>

PropagateFrame ==
    UNCHANGED <<start, search, visitor, ret, op, outcome, rngVars, minVars, pq>>

\* pop, order_values_lcv, set and propagate_choice: args is the call (the
\* engine after the set, the coordinates, the value, the undo list handed in)
\* with the engine after the pop and the value order computed on it, result
\* what propagate_choice returned; stack is the caller's undo list
Propagate ==
    /\ pc = "place"
    /\ Len(returned) < MaxPlaced
    /\ \E cell \in {pq_pop(puzzle.empty_cell_queue)} :
        /\ cell.some
        /\ \E val \in cell.prio :
           \E placed \in {puzzle_set([puzzle EXCEPT !.empty_cell_queue = cell.q],
                                     get_cell_coords(cell.key), val)} :
           \E pr \in {propagate_choice(placed, get_cell_coords(cell.key), val, stack)} :
              /\ args' = [puzzle |-> placed, coords |-> get_cell_coords(cell.key),
                          val |-> val, undo |-> stack,
                          possibilities |-> cell.prio \ {val},
                          popped |-> [puzzle EXCEPT !.empty_cell_queue = cell.q],
                          ordered_vals |->
                              order_values_lcv([puzzle EXCEPT !.empty_cell_queue = cell.q],
                                               get_cell_coords(cell.key), cell.prio)]
              /\ result' = pr
              /\ puzzle' = pr.puzzle
              /\ stack' = pr.undo
              /\ pc' = IF pr.panic THEN "panic" ELSE "propagated"
    /\ UNCHANGED returned
    /\ PropagateFrame

\* the caller goes on after a dead end: the cell is cleared and goes back
\* into the queue with the candidates left
PropagateDeadEnd ==
    /\ pc = "propagated"
    /\ result.dead_end
    /\ puzzle' = [puzzle_delete(puzzle, args.coords) EXCEPT !.empty_cell_queue =
                     insert_unsafe(@, get_cell_index(args.coords[1], args.coords[2]),
                                   args.possibilities)]
    /\ returned' = Append(returned, "dead_end")
    /\ pc' = "place"
    /\ args' = <<>>
    /\ result' = <<>>
    /\ UNCHANGED stack
    /\ PropagateFrame

\* the caller goes on to the next cell
PropagateKept ==
    /\ pc = "propagated"
    /\ ~result.dead_end
    /\ returned' = Append(returned, "kept")
    /\ pc' = "place"
    /\ args' = <<>>
    /\ result' = <<>>
    /\ UNCHANGED <<puzzle, stack>>
    /\ PropagateFrame

\* the caller backtracks: for &(ci, old_set) in undo.iter().rev() the pair is
\* inserted again
PropagateUndo ==
    /\ pc = "propagated"
    /\ ~result.dead_end
    /\ puzzle' = [puzzle EXCEPT !.empty_cell_queue = undo_replay(@, stack, Len(stack))]
    /\ pc' = "undone"
    /\ UNCHANGED <<stack, returned, args, result>>
    /\ PropagateFrame

NextPropagate == Propagate \/ PropagateDeadEnd \/ PropagateKept \/ PropagateUndo

SpecPropagate == InitPropagate /\ [][NextPropagate]_vars

\* the empty cells other than the cell at coords in its row, column or box
EmptyNeighbours(p, coords) ==
    {ci \in EmptyCellsOf(p.grid) :
        ci # coords[1] * 9 + coords[2] /\ Peers(ci, coords[1] * 9 + coords[2])}

\* the keys of a queue with their priorities
KeyPriorities(q) == [k \in present(q) |-> priority_of(q, k)]

PropagateCalled == op.name = "propagate_choice" /\ pc \in {"propagated", "undone"}

\* C27: propagate_choice(coords, val) reports a dead end if and only if some
\* empty neighbour of coords has the queue priority exactly {val}; when it
\* reports a dead end the queue is exactly as it was before the call.
C27_DeadEndIffSingletonNeighbour ==
    (op.name = "propagate_choice") =>
        /\ pc # "panic"
        /\ PropagateCalled =>
            /\ result.dead_end <=>
                  \E ci \in EmptyNeighbours(args.puzzle, args.coords) :
                      /\ ci \in present(args.puzzle.empty_cell_queue)
                      /\ priority_of(args.puzzle.empty_cell_queue, ci) = {args.val}
            /\ result.dead_end =>
                  result.puzzle.empty_cell_queue = args.puzzle.empty_cell_queue

C27_Witness ==
    /\ PropagateCalled /\ result.dead_end
    /\ \E ci \in EmptyNeighbours(args.puzzle, args.coords) :
           /\ priority_of(args.puzzle.empty_cell_queue, ci) # {args.val}
           /\ args.val \in priority_of(args.puzzle.empty_cell_queue, ci)

\* the empty neighbours whose priority held val before the call
Changed ==
    {ci \in EmptyNeighbours(args.puzzle, args.coords) :
        /\ ci \in present(args.puzzle.empty_cell_queue)
        /\ args.val \in priority_of(args.puzzle.empty_cell_queue, ci)}

\* C28: when propagate_choice(coords, val) reports no dead end, exactly the
\* empty neighbours whose priority held val have val removed and every other
\* queue entry is as before; the undo list holds one (key, previous priority)
\* pair for each changed neighbour and nothing else; re-inserting the undo
\* pairs restores the key-to-priority map of the queue.
C28_UndoRestoresThePriorities ==
    (PropagateCalled /\ ~result.dead_end) =>
        \E changed \in {Changed}, before \in {KeyPriorities(args.puzzle.empty_cell_queue)},
           after \in {KeyPriorities(result.puzzle.empty_cell_queue)} :
            /\ DOMAIN after = DOMAIN before
            /\ \A k \in DOMAIN before :
                   after[k] = IF k \in changed THEN before[k] \ {args.val} ELSE before[k]
            /\ Len(result.undo) = Cardinality(changed)
            /\ SeqSet(result.undo) = {<<ci, before[ci]>> : ci \in changed}
            /\ pc = "undone" => KeyPriorities(puzzle.empty_cell_queue) = before

C28_Witness ==
    /\ op.name = "propagate_choice" /\ pc = "undone"
    /\ Cardinality(Changed) >= 3
    /\ args.undo # <<>>
    /\ puzzle.empty_cell_queue # result.puzzle.empty_cell_queue

(***************************************************************************)
(* The loop of minimize_from_rng: a rejected removal                       *)
(***************************************************************************)
\* a turn of the loop has ended
TurnEnded == op.name = "minimize_from_rng" /\ pc = "min_loop" /\ args # <<>>

\* the removal tried in the last turn was rejected: the cell holds its value
Rejected == get_by_row_col(puzzle.grid, current[1] \div 9, current[1] % 9) # None

\* C29: when minimize_from_rng rejects the removal of a clue, the engine
\* after the turn is the engine before it: the same grid, the same row,
\* column and box sets, the same keys with the same priorities in the queue;
\* the cell of the rejected clue has no queue entry.
C29_RejectedRemovalRestoresTheEngine ==
    (TurnEnded /\ Rejected) =>
        /\ puzzle.grid = args.before.grid
        /\ puzzle.row_sets = args.before.row_sets
        /\ puzzle.col_sets = args.before.col_sets
        /\ puzzle.box_sets = args.before.box_sets
        /\ KeyPriorities(puzzle.empty_cell_queue) = KeyPriorities(args.before.empty_cell_queue)
        /\ ~has_entry(puzzle, current[1])

C29_Witness ==
    /\ TurnEnded /\ Rejected
    /\ "removed" \in seen
    /\ \E ci \in EmptyNeighbours(puzzle, get_cell_coords(current[1])) : has_entry(puzzle, ci)

(***************************************************************************)
(* from_seed: new, fill_from_rng, minimize_from_rng on one random stream   *)
(***************************************************************************)
\* the seeds: the fill of the first meets no dead end, the fills of the others
\* meet dead ends and backtrack
FromSeedSeeds == {1, 10, 12}

InitFromSeed ==
    \E seed \in FromSeedSeeds :
        /\ start = grid_default
        /\ puzzle = puzzle_new
        /\ search = NoSearch
        /\ stack = <<>>
        /\ visitor = visitor_new(FALSE, 0)
        /\ ret = TRUE
        /\ pc = "fill_call"
        /\ op = [name |-> "from_seed", max_count |-> 0]
        /\ outcome = "none"
        /\ returned = <<>>
        /\ rng = seed
        /\ seen = {}
        /\ unattempted_filled_cell_pairs = <<>>
        /\ current = <<0, None>>
        /\ original_empty_cell_queue = pq_new
        /\ pq = pq_new
        /\ args = <<>>
        /\ result = <<>>

\* fill_from_rng has returned: puzzle.minimize_from_rng(&mut rng) is called
FromSeedMinimize ==
    /\ pc = "done"
    /\ op.name = "from_seed"
    /\ pc' = "min_call"
    /\ op' = [name |-> "minimize_from_rng", max_count |-> 0]
    /\ outcome' = "filled"
    /\ stack' = <<>>
    /\ UNCHANGED <<start, puzzle, search, visitor, ret, unitVars, returned, rngVars, minVars>>

NextFromSeed == NextFill \/ FromSeedMinimize \/ NextMin

SpecFromSeed == InitFromSeed /\ [][NextFromSeed]_vars

\* fill_from_rng has returned, or a turn of the loop of minimize_from_rng has
\* ended, in a run of from_seed
Generated ==
    \/ op.name = "from_seed" /\ pc = "done"
    \/ outcome = "filled" /\ pc \in {"min_call", "min_loop", "done"}

\* C30: on the path new, fill_from_rng, minimize_from_rng, when fill_from_rng
\* has returned and after every turn of the loop of minimize_from_rng (the
\* removal kept or rejected) the queue has an entry exactly for the empty
\* cells, each entry is the intersection of the cell's row, column and box
\* sets, and each set is 1..9 without the digits placed in its group; no run
\* ends in a panic.
C30_GenerationKeepsTheInvariant ==
    /\ (op.name = "from_seed" \/ outcome = "filled") => pc # "panic"
    /\ Generated => (EngineInvariant(puzzle) /\ SetsConsistent(puzzle))

C30_Witness ==
    /\ outcome = "filled" /\ pc = "min_loop"
    /\ {"backtrack", "removed", "restored"} \subseteq seen
    /\ Rejected
    /\ Cardinality(EmptyCellsOf(puzzle.grid)) > 40

(***************************************************************************)
(* What a backtrack step of fill_from_rng leaves                            *)
(***************************************************************************)
\* the turn about to be taken is a backtrack: the cell popped has nothing left
\* to try and a frame is on the stack
BacktrackStep ==
    /\ op.name = "fill_from_rng"
    /\ PopsExhaustedCell
    /\ stack # <<>>

\* the engine p after the backtrack onto frame, the exhausted cell being
\* exhausted_cell and sets_before the sets before the frame's digit was set
Backtracked(p, frame, exhausted_cell, sets_before) ==
    LET coords == get_cell_coords(frame.cell_index)
    IN /\ get_by_row_col(p.grid, coords[1], coords[2]) = None
       /\ has_entry(p, frame.cell_index)
       /\ priority_of(p.empty_cell_queue, frame.cell_index) = frame.possibilities
       /\ SetsOf(p) = sets_before
       /\ \A i \in 1..Len(frame.undo) :
             frame.undo[i][1] # exhausted_cell =>
                /\ has_entry(p, frame.undo[i][1])
                /\ priority_of(p.empty_cell_queue, frame.undo[i][1]) = frame.undo[i][2]
       /\ has_entry(p, exhausted_cell)
       /\ priority_of(p.empty_cell_queue, exhausted_cell) =
              get_element_set(p, get_cell_coords(exhausted_cell))

\* C31: after a backtrack step of fill_from_rng the popped frame's cell is
\* empty again and is in the queue with exactly its remaining untried
\* candidates, the row, column and box sets equal those just before that
\* frame's digit was placed, every neighbour recorded in the frame's undo list
\* other than the exhausted cell has the priority recorded there, and the
\* exhausted cell is back in the queue with the intersection of its row,
\* column and box sets.
C31_BacktrackRestoresTheFrame ==
    [][BacktrackStep =>
          Backtracked(puzzle', stack[Len(stack)],
                      pq_pop(puzzle.empty_cell_queue).key, args[Len(args)])]_vars

\* a backtrack has been taken and the next turn is a backtrack again, onto a
\* frame with untried candidates whose undo list holds the exhausted cell and
\* other neighbours
C31_Witness ==
    /\ BacktrackStep
    /\ "backtrack" \in seen
    /\ stack[Len(stack)].possibilities # {}
    /\ \E i, j \in 1..Len(stack[Len(stack)].undo) :
          /\ stack[Len(stack)].undo[i][1] = pq_pop(puzzle.empty_cell_queue).key
          /\ stack[Len(stack)].undo[j][1] # pq_pop(puzzle.empty_cell_queue).key

(***************************************************************************)
(* What dfs leaves of the engine it was entered with                        *)
(***************************************************************************)
\* the grid, the sets and the key-to-priority map of p are those of entry
Restored(p, entry) ==
    /\ p.grid = entry.grid
    /\ SetsOf(p) = SetsOf(entry)
    /\ KeyPriorities(p.empty_cell_queue) = KeyPriorities(entry.empty_cell_queue)

\* the step is the return of a dfs activation that only called the visitor
DfsReturnsAtEntry == pc = "dfs_call" /\ pc' = "dfs_return"

\* the step is the return of the top activation, after its loop or a break
DfsReturnsFromLoop ==
    /\ pc \in {"dfs_loop", "dfs_return"}
    /\ op.name # "minimize_from_rng"
    /\ Len(stack') < Len(stack)

\* C32: when dfs returns on an engine that satisfied the engine invariant at
\* entry, whether it ran to exhaustion or was stopped early by the visitor,
\* the grid, the row, column and box sets and the key-to-priority map of the
\* queue equal those at entry (for every activation, the outermost and the
\* nested ones).
C32_DfsRestoresTheEngine ==
    [][/\ (DfsReturnsAtEntry /\ EngineInvariant(search)) => Restored(search', search)
       /\ (DfsReturnsFromLoop /\ EngineInvariant(args[Len(args)])) =>
              Restored(search', args[Len(args)])]_vars

\* a nested activation that popped a cell has returned false (the visitor
\* stopped the search after a second grid) into an activation of an engine
\* that satisfied the invariant
C32_Witness ==
    /\ pc = "dfs_return" /\ ~ret
    /\ op.name = "find_solutions_bounded"
    /\ Len(stack) >= 2
    /\ Len(args) = Len(stack)
    /\ ~pq_is_empty(search.empty_cell_queue)
    /\ EngineInvariant(args[Len(args)])
    /\ visitor.count >= 2

(***************************************************************************)
(* The value order of a popped cell                                        *)
(***************************************************************************)
\* the number of empty neighbours of the cell whose priority in p holds val
ConstrainedBy(p, coords, val) ==
    Cardinality({ci \in EmptyNeighbours(p, coords) :
                    has_entry(p, ci) /\ val \in priority_of(p.empty_cell_queue, ci)})

\* out holds the digits of candidates once each, in ascending order when there
\* are at most two, else by ascending count of constrained neighbours and digit
OrderedLcv(p, coords, candidates, out) ==
    /\ Len(out) = Cardinality(candidates)
    /\ SeqSet(out) = candidates
    /\ \A i, j \in 1..Len(out) :
          i < j =>
             IF Cardinality(candidates) <= 2
             THEN out[i] < out[j]
             ELSE \E a \in {ConstrainedBy(p, coords, out[i])},
                     b \in {ConstrainedBy(p, coords, out[j])} :
                     a < b \/ (a = b /\ out[i] < out[j])

\* C33: order_values_lcv(coords, candidates) returns a permutation of the
\* candidate set; with at most two candidates the digits are in ascending
\* order; with three or more they are sorted ascending by the number of empty
\* neighbours of the cell whose current queue priority contains the digit,
\* ties broken by ascending digit.
C33_ValuesInLcvOrder ==
    PropagateCalled =>
        OrderedLcv(args.popped, args.coords, args.possibilities \cup {args.val},
                   args.ordered_vals)

\* three or more candidates, a greater digit before a smaller one and a tie
C33_Witness ==
    /\ PropagateCalled
    /\ Len(args.ordered_vals) >= 3
    /\ \E i, j \in 1..Len(args.ordered_vals) :
          /\ i < j
          /\ args.ordered_vals[i] > args.ordered_vals[j]
    /\ \E i, j \in 1..Len(args.ordered_vals) :
          /\ i < j
          /\ ConstrainedBy(args.popped, args.coords, args.ordered_vals[i])
             = ConstrainedBy(args.popped, args.coords, args.ordered_vals[j])

(***************************************************************************)
(* The two structures of the queue: calls of insert, pop and delete with   *)
(* every key below the capacity, one after the other                       *)
(***************************************************************************)
\* the keys below the capacity
HeapKeys == 0..(N - 1)

\* the priorities used: one set of each of three cardinalities
HeapPriorities == {{1}, {1, 2}, {1, 2, 3}}

InitHeap ==
    \E grown \in BOOLEAN :
        /\ start = grid_default
        /\ puzzle = puzzle_new
        /\ search = NoSearch
        /\ stack = <<>>
        /\ visitor = visitor_new(FALSE, 0)
        /\ ret = TRUE
        /\ pc = "heap"
        /\ op = [name |-> "heap", max_count |-> 0]
        /\ outcome = "none"
        /\ returned = <<>>
        /\ rng = 0
        /\ seen = {}
        /\ unattempted_filled_cell_pairs = <<>>
        /\ current = <<0, None>>
        /\ original_empty_cell_queue = pq_new
        /\ pq = IF grown THEN init_map_none(pq_new, N) ELSE pq_new
        /\ args = <<>>
        /\ result = <<>>

\* a call has ended with r; outcome is the name of the call
HeapCall(name, r) ==
    /\ pq' = r.q
    /\ outcome' = name
    /\ pc' = IF r.panic THEN "panic" ELSE "heap"
    /\ UNCHANGED <<start, puzzle, searchVars, op, args, result, returned, rngVars, minVars>>

\* insert of a key that is absent, or update of one that is present
HeapInsert ==
    /\ pc = "heap"
    /\ \E key \in HeapKeys, prio \in HeapPriorities :
          HeapCall("insert", insert(pq, key, prio))

HeapPop ==
    /\ pc = "heap"
    /\ HeapCall("pop", pop(pq))

HeapDelete ==
    /\ pc = "heap"
    /\ \E key \in HeapKeys : HeapCall("delete", delete(pq, key))

NextHeap == HeapInsert \/ HeapPop \/ HeapDelete

SpecHeap == InitHeap /\ [][NextHeap]_vars

\* the heap and the map of q agree and the heap is ordered
HeapOrdered(q) ==
    /\ \A k \in present(q) : Cardinality({i \in 1..Len(q.heap) : q.heap[i] = k}) = 1
    /\ \A i \in 1..Len(q.heap) : q.heap[i] \in present(q)
    /\ \A k \in 0..(Len(q.map) - 1), i \in 0..(N - 1) :
          (q.map[k + 1].some /\ q.map[k + 1].slot = i)
              <=> (i < Len(q.heap) /\ q.heap[i + 1] = k)
    /\ pq_len(q) = Cardinality(present(q))
    /\ \A i \in 1..(Len(q.heap) - 1) :
          es_ge(get_priority_heap_index_unsafe(q, get_parent_index(i)).prio,
                get_priority_heap_index_unsafe(q, i).prio)

\* C34: after any sequence of insert_or_update, pop and delete with in-range
\* keys, the heap holds each present key exactly once, map[k] is Some((i, _))
\* if and only if heap[i] = k, len equals the number of keys with a map entry,
\* and for every heap slot i > 0 the priority at slot (i-1)/2 is greater than
\* or equal to the priority at slot i.
C34_HeapAndMapAgree == (op.name = "heap") => HeapOrdered(pq)

\* a delete has left a heap of four keys on three levels with priorities of
\* three ranks
C34_Witness ==
    /\ op.name = "heap" /\ pc = "heap" /\ outcome = "delete"
    /\ Len(pq.heap) = 4
    /\ es_gt(get_priority_heap_index_unsafe(pq, 0).prio,
             get_priority_heap_index_unsafe(pq, 1).prio)
    /\ es_gt(get_priority_heap_index_unsafe(pq, 1).prio,
             get_priority_heap_index_unsafe(pq, 3).prio)
    /\ es_gt(get_priority_heap_index_unsafe(pq, 0).prio,
             get_priority_heap_index_unsafe(pq, 2).prio)

(***************************************************************************)
(* The head of the main loop of fill_from_rng                              *)
(***************************************************************************)
\* the cells of the frames of stk
FrameCells(stk) == {stk[i].cell_index : i \in 1..Len(stk)}

\* C35: at the start of every iteration of the main loop of fill_from_rng on a
\* blank engine, the keys of the queue are exactly the empty cells, the cells
\* of the stack frames are pairwise distinct and are exactly the filled cells
\* (stack depth + queue length = 81), every queue priority is a subset of the
\* intersection of that cell's row, column and box sets, and no two filled
\* cells of one row, column or box hold the same digit.
C35_FillLoopInvariant ==
    (op.name = "fill_from_rng" /\ start = grid_default /\ pc = "fill_loop") =>
        /\ present(puzzle.empty_cell_queue) = EmptyCellsOf(puzzle.grid)
        /\ Cardinality(FrameCells(stack)) = Len(stack)
        /\ FrameCells(stack) = FilledCellsOf(puzzle.grid)
        /\ Len(stack) + pq_len(puzzle.empty_cell_queue) = BOARD_SIZE
        /\ \A k \in present(puzzle.empty_cell_queue) :
              priority_of(puzzle.empty_cell_queue, k)
                  \subseteq get_element_set(puzzle, get_cell_coords(k))
        /\ NoRepeat(puzzle.grid)

\* the head of the loop after dead ends and backtracks, with a cell whose
\* priority has lost candidates that its three sets still hold
C35_Witness ==
    /\ op.name = "fill_from_rng" /\ start = grid_default /\ pc = "fill_loop"
    /\ {"dead_end", "backtrack"} \subseteq seen
    /\ Len(stack) > BOARD_SIZE \div 2
    /\ \E k \in present(puzzle.empty_cell_queue) :
          priority_of(puzzle.empty_cell_queue, k)
              # get_element_set(puzzle, get_cell_coords(k))

(***************************************************************************)
(* The queue when the enumerations pop a cell                              *)
(***************************************************************************)
\* the engine p right after the pop of cell_index with the priority candidates:
\* the cell is empty and has no entry, its priority was the intersection of its
\* three sets, and every other cell is as the engine invariant has it
PoppedInvariant(p, cell_index, candidates) ==
    /\ cell_index \in EmptyCellsOf(p.grid)
    /\ ~has_entry(p, cell_index)
    /\ candidates = get_element_set(p, get_cell_coords(cell_index))
    /\ \A ci \in Cells \ {cell_index} : CellInvariant(p, ci)

\* C36: in both enumeration engines started on an engine that satisfies the
\* engine invariant, every time an MRV cell is popped the keys of the queue
\* are exactly the empty cells and each queue priority equals the intersection
\* of that cell's row, column and box sets (before the pops of dfs and of the
\* prologue of the iterative engine; right after the pops of its main loop,
\* the popped cell set apart), and propagate_choice finds a queue entry for
\* every empty neighbour: no run ends in the panic of its unwrap.
C36_QueueMatchesTheGridAtEveryPop ==
    (op.name \in {"find_solutions", "find_solutions_bounded", "is_well_posed"}) =>
        /\ (pc = "panic") => ~EngineInvariant(puzzle)
        /\ (pc \in {"dfs_call", "it_call"} /\ EngineInvariant(puzzle)) =>
              EngineInvariant(search)
        /\ (/\ pc \in {"dfs_loop", "it_loop"}
            /\ IF pc = "dfs_loop" THEN stack[Len(stack)].i = 1 ELSE outcome = "descend"
            /\ EngineInvariant(puzzle)) =>
              PoppedInvariant(search, stack[Len(stack)].cell_index,
                              SeqSet(IF pc = "dfs_loop" THEN stack[Len(stack)].ordered_vals
                                     ELSE stack[Len(stack)].order))

\* the iterative engine has popped a cell below two frames after a grid was
\* visited and choices were undone
C36_Witness ==
    /\ op.name = "find_solutions" /\ EngineInvariant(puzzle)
    /\ pc = "it_loop" /\ outcome = "descend"
    /\ Len(stack) >= 3
    /\ visitor.count >= 1
    /\ stack[Len(stack)].order # <<>>

(***************************************************************************)
(* What minimize_from_rng changes                                          *)
(***************************************************************************)
\* C37: minimize_from_rng only clears cells: every cell that is filled in the
\* grid it leaves (after every turn of its loop and at its return) holds the
\* digit it held in the input grid and every cell empty in the input is empty;
\* the completions of that grid are those of the input (its one solved grid);
\* the cells popped by the loop are cells filled in the input, each popped
\* once, and at the return they are all of them: the loop ends after that many
\* iterations.
C37_MinimizeOnlyClears ==
    (op.name = "minimize_from_rng" /\ pc \in {"min_loop", "done"}) =>
        /\ Agrees(start, puzzle.grid)
        /\ \E all \in {Completions(start)} :
              /\ Cardinality(all) = 1
              /\ Completions(puzzle.grid) = all
        /\ Cardinality(SeqSet(returned)) = Len(returned)
        /\ SeqSet(returned) \subseteq FilledCellsOf(start)
        /\ (pc = "done") => SeqSet(returned) = FilledCellsOf(start)

\* minimize_from_rng has returned on a grid that had empty cells, with clues
\* removed and clues put back
C37_Witness ==
    /\ MinDone
    /\ EmptyCellsOf(start) # {}
    /\ {"removed", "restored"} \subseteq seen
    /\ FilledCellsOf(puzzle.grid) # FilledCellsOf(start)


(***************************************************************************)
(* The searches from any engine the public operations can hand them:        *)
(* from(grid), then at most one set or delete, then the enumeration.        *)
(***************************************************************************)
\* the boards the engines are built from
SearchGrids ==
    <<StartGrid(SEED_PUZZLE_SOLUTION, {1, 2}, 3, 0),
      StartGrid(SEED_PUZZLE_SOLUTION, {1, 2, 3}, 2, 0)>>

\* the cells set or deleted before the search: cell 0 is filled and cell 2 is
\* empty in both boards
SearchCells == {0, 2}

InitSearch ==
    \E g \in 1..Len(SearchGrids), max_count \in 0..MaxBound,
       name \in {"find_solutions", "find_solutions_bounded", "is_well_posed"} :
        /\ (name # "find_solutions_bounded") => max_count = 0
        /\ start = SearchGrids[g]
        /\ puzzle = from_grid(start)
        /\ search = NoSearch
        /\ stack = <<>>
        /\ visitor = visitor_new(FALSE, 0)
        /\ ret = TRUE
        /\ pc = "built"
        /\ op = [name |-> name, max_count |-> max_count]
        /\ outcome = "none"
        /\ returned = <<>>
        /\ rng = 0
        /\ seen = {}
        /\ unattempted_filled_cell_pairs = <<>>
        /\ current = <<0, None>>
        /\ original_empty_cell_queue = pq_new
        /\ pq = pq_new
        /\ args = <<>>
        /\ result = <<>>

\* the engine goes to the search as p
EngineIs(p, how) ==
    /\ puzzle' = p
    /\ seen' = {how}
    /\ pc' = "idle"
    /\ UNCHANGED <<start, searchVars, opVars, outcome, returned, rng, minVars>>

\* the engine as from(grid) built it
EngineAsBuilt ==
    /\ pc = "built"
    /\ EngineIs(puzzle, "from")

\* puzzle.set(coords, val) before the search
EngineSet ==
    /\ pc = "built"
    /\ \E ci \in SearchCells, val \in OpDigits :
          EngineIs(puzzle_set(puzzle, get_cell_coords(ci), val), "set")

\* puzzle.delete(coords) before the search
EngineDelete ==
    /\ pc = "built"
    /\ \E ci \in SearchCells :
          EngineIs(puzzle_delete(puzzle, get_cell_coords(ci)), "delete")

NextSearch == EngineAsBuilt \/ EngineSet \/ EngineDelete \/ NextVisit

SpecSearch == InitSearch /\ [][NextSearch]_vars

\* the program runs on while it has a step to take
SpecSearchFair == SpecSearch /\ WF_vars(NextSearch)

\* a search is under way
Searching == pc \in {"dfs_call", "dfs_loop", "dfs_return", "it_loop", "it_return"}

\* the cursor of a frame: i of a dfs activation, next_ix of a Frame
Cursor(frame) == IF "next_ix" \in DOMAIN frame THEN frame.next_ix + 1 ELSE frame.i

\* the candidates of a frame
Candidates(frame) == IF "next_ix" \in DOMAIN frame THEN frame.order ELSE frame.ordered_vals

\* the depth is at most the number of empty cells of the engine searched, and
\* no cursor is beyond the end of its candidates
WithinBounds ==
    Searching =>
        /\ Len(stack) <= Cardinality(EmptyCellsOf(puzzle.grid))
        /\ Len(stack) <= BOARD_SIZE
        /\ \A k \in 1..Len(stack) : Cursor(stack[k]) <= Len(Candidates(stack[k])) + 1

\* a frame that stays on the stack never moves its cursor back, and moves it
\* by one candidate at a time
CursorsAdvance ==
    (Searching /\ Searching') =>
        \A k \in 1..Len(stack) :
            (k <= Len(stack') /\ (k < Len(stack) \/ Len(stack') = Len(stack))) =>
                /\ stack'[k].cell_index = stack[k].cell_index
                /\ Cursor(stack'[k]) \in {Cursor(stack[k]), Cursor(stack[k]) + 1}

\* C38: visit_solutions_recursive and visit_solutions_iterative terminate for
\* every starting engine and every visitor: a frame tries each of its ordered
\* candidates at most once, the depth never exceeds the number of empty cells
\* (at most 81 frames), and the enumeration comes to its end
C38_SearchesTerminate ==
    /\ []WithinBounds
    /\ [][CursorsAdvance]_vars
    /\ <>(pc = "done")

====
